---- MODULE Spec2Model ----
(***************************************************************************)
(* taskmasterpro: the in-memory entity store (MemStorage), the HTTP route  *)
(* handlers in front of it and the daily planner's drag-and-drop           *)
(* coordinator.                                                            *)
(*                                                                         *)
(* JavaScript strings that the code takes apart or builds (path            *)
(* parameters, element ids, slot labels, dates) are sequences of           *)
(* one-character strings; object keys are TLA+ strings.  A JSON value is a *)
(* record [t, n, s]: its type tag, its number and its string.              *)
(***************************************************************************)
EXTENDS Integers, Sequences, FiniteSets, TLC

\* ------------------------------------------------------------------ bounds
\* The id counter is capped: no create is served once currentId exceeds MaxId.
MaxId == 7
\* In the runs that follow two drops on a time slot the counter is capped at
\* MaxItemId: a source and two scheduled items take three ids.
MaxItemId == 8
\* new Date() returns an instant in 0..MaxTime: the instant of the reading
\* before it or the next one (only the order of instants is ever observed).
MaxTime == 1
\* At most MaxAwaiting update handlers are suspended at their await at a time.
MaxAwaiting == 2
\* A run follows at most MaxMoves movements of the pointer in resize gestures.
MaxMoves == 2

\* ------------------------------------------------------------ JSON values
Null == [t |-> "null", n |-> 0, s |-> <<>>]
Num(i) == [t |-> "number", n |-> i, s |-> <<>>]
Str(cs) == [t |-> "string", n |-> 0, s |-> cs]
Bool(b) == [t |-> "boolean", n |-> IF b THEN 1 ELSE 0, s |-> <<>>]
\* a Date object (new Date()), serialised by res.json as a string
DateObj(ms) == [t |-> "date", n |-> ms, s |-> <<>>]

\* JavaScript truthiness of a property that may be absent (undefined)
Truthy(o, f) ==
    /\ f \in DOMAIN o
    /\ o[f].t # "null"
    /\ (o[f].t = "number" => o[f].n # 0)
    /\ (o[f].t = "boolean" => o[f].n # 0)
    /\ (o[f].t = "string" => o[f].s # <<>>)

\* o.f ?? d
Coalesce(o, f, d) == IF f \in DOMAIN o /\ o[f].t # "null" THEN o[f] ELSE d

\* { ...a, ...b }: b's properties override a's
Spread(a, b) == b @@ a

\* ---------------------------------------------------------------- strings
Digit(d) == <<"0", "1", "2", "3", "4", "5", "6", "7", "8", "9">>[d + 1]
DigitChars == {Digit(d) : d \in 0..9}
DigitVal(c) == CHOOSE d \in 0..9 : Digit(d) = c

\* `${n}` for a non-negative integer
RECURSIVE NumToString(_)
NumToString(i) == IF i < 10 THEN <<Digit(i)>> ELSE NumToString(i \div 10) \o <<Digit(i % 10)>>

\* the value of the longest prefix of decimal digits of cs, continuing acc
RECURSIVE DigitPrefix(_, _)
DigitPrefix(cs, acc) ==
    IF cs # <<>> /\ Head(cs) \in DigitChars
    THEN DigitPrefix(Tail(cs), 10 * acc + DigitVal(Head(cs)))
    ELSE acc

RECURSIVE SkipSpaces(_)
SkipSpaces(cs) == IF cs # <<>> /\ Head(cs) = " " THEN SkipSpaces(Tail(cs)) ELSE cs

\* parseInt(string): leading white space is skipped, a sign is read, then the
\* longest run of digits; whatever follows is ignored; NaN when no digit is read.
ParseIntMagnitude(cs) ==
    IF cs # <<>> /\ Head(cs) \in DigitChars
    THEN [nan |-> FALSE, v |-> DigitPrefix(cs, 0)]
    ELSE [nan |-> TRUE, v |-> 0]

ParseInt(str) ==
    LET cs == SkipSpaces(str)
    IN  IF cs # <<>> /\ Head(cs) = "-"
        THEN LET m == ParseIntMagnitude(Tail(cs)) IN [nan |-> m.nan, v |-> 0 - m.v]
        ELSE IF cs # <<>> /\ Head(cs) = "+"
             THEN ParseIntMagnitude(Tail(cs))
             ELSE ParseIntMagnitude(cs)

\* ------------------------------------------------------- Map<number, T>
\* A Map is the sequence of its entries [key, val] in insertion order.
EmptyMap == <<>>
MapKeys(m) == {m[i].key : i \in DOMAIN m}
\* Map.get / Map.has with a key that may be NaN: no entry has the key NaN
MapHas(m, k) == ~k.nan /\ k.v \in MapKeys(m)
MapGet(m, k) == m[CHOOSE i \in DOMAIN m : m[i].key = k.v].val
\* a store that keeps one record per (date, startTime): the new one replaces it
MapSetOnePerSlot(m, key, val) ==
    LET slot == {"date", "startTime"}
        clash(e) == /\ e.key # key
                    /\ slot \subseteq DOMAIN val /\ slot \subseteq DOMAIN e.val
                    /\ \A f \in slot : e.val[f] = val[f]
    IN  Append(SelectSeq(m, LAMBDA e : e.key # key /\ ~clash(e)), [key |-> key, val |-> val])
\* the entry of an existing key is removed and appended again
MapSetMovesToEnd(m, key, val) ==
    Append(SelectSeq(m, LAMBDA e : e.key # key), [key |-> key, val |-> val])
\* Map.set: an existing key keeps its position, a new key is appended
MapSet(m, key, val) ==
    IF key \in MapKeys(m)
    THEN [i \in DOMAIN m |-> IF m[i].key = key THEN [key |-> key, val |-> val] ELSE m[i]]
    ELSE Append(m, [key |-> key, val |-> val])
RECURSIVE SeqFilterKey(_, _)
SeqFilterKey(m, key) ==
    IF m = <<>> THEN <<>>
    ELSE IF Head(m).key = key THEN SeqFilterKey(Tail(m), key)
         ELSE <<Head(m)>> \o SeqFilterKey(Tail(m), key)
\* the entry is left in place
MapDeleteKeepsEntry(m, k) == m
\* Map.clear in place of Map.delete
MapDeleteClears(m, k) == IF MapHas(m, k) THEN <<>> ELSE m
\* Map.delete: removes the entry (the caller reads MapHas for the result)
MapDelete(m, k) == IF MapHas(m, k) THEN SeqFilterKey(m, k.v) ELSE m
\* Array.from(map.values())
MapValues(m) == [i \in DOMAIN m |-> m[i].val]

\* ----------------------------------------------------------------- schema
\* A column of a pgTable: its zod type, .notNull() and .default()/serial.
Col(type, notNull, hasDefault) == [type |-> type, notNull |-> notNull, hasDefault |-> hasDefault]
Serial == Col("number", TRUE, TRUE)
Req(type) == Col(type, TRUE, FALSE)
Opt(type) == Col(type, FALSE, FALSE)
OptDefault(type) == Col(type, FALSE, TRUE)
ReqDefault(type) == Col(type, TRUE, TRUE)

meetings ==
    "id" :> Serial @@ "userId" :> Req("number") @@ "title" :> Req("string")
    @@ "startTime" :> Req("string") @@ "duration" :> Req("number")
    @@ "color" :> OptDefault("string") @@ "date" :> Req("string")

todos ==
    "id" :> Serial @@ "userId" :> Req("number") @@ "title" :> Req("string")
    @@ "description" :> Opt("string") @@ "priority" :> ReqDefault("string")
    @@ "estimatedDuration" :> OptDefault("number") @@ "completed" :> OptDefault("boolean")
    @@ "projectId" :> Opt("number") @@ "dueDate" :> Opt("string")
    @@ "createdAt" :> OptDefault("date")

projects ==
    "id" :> Serial @@ "userId" :> Req("number") @@ "name" :> Req("string")
    @@ "description" :> Opt("string") @@ "color" :> OptDefault("string")

scheduledItems ==
    "id" :> Serial @@ "userId" :> Req("number") @@ "title" :> Req("string")
    @@ "startTime" :> Req("string") @@ "duration" :> Req("number")
    @@ "date" :> Req("string") @@ "type" :> Req("string")
    @@ "originalId" :> Opt("number") @@ "color" :> OptDefault("string")

passwords ==
    "id" :> Serial @@ "userId" :> Req("number") @@ "siteName" :> Req("string")
    @@ "url" :> Opt("string") @@ "username" :> Opt("string") @@ "email" :> Opt("string")
    @@ "password" :> Req("string") @@ "notes" :> Opt("string")
    @@ "createdAt" :> OptDefault("date") @@ "updatedAt" :> OptDefault("date")

goals ==
    "id" :> Serial @@ "userId" :> Req("number") @@ "title" :> Req("string")
    @@ "description" :> Opt("string") @@ "targetValue" :> Opt("number")
    @@ "currentValue" :> OptDefault("number") @@ "unit" :> Opt("string")
    @@ "category" :> Req("string") @@ "startDate" :> Req("string")
    @@ "targetDate" :> Opt("string") @@ "isActive" :> OptDefault("boolean")

habitTracking ==
    "id" :> Serial @@ "userId" :> Req("number") @@ "habitId" :> Req("number")
    @@ "date" :> Req("string") @@ "status" :> Req("string") @@ "iconKey" :> Req("string")

habitLegends ==
    "id" :> Serial @@ "userId" :> Req("number") @@ "iconKey" :> Req("string")
    @@ "label" :> Req("string") @@ "icon" :> Req("string") @@ "color" :> Req("string")

accounts ==
    "id" :> Serial @@ "userId" :> Req("number") @@ "name" :> Req("string")
    @@ "type" :> Req("string") @@ "balance" :> ReqDefault("string")
    @@ "currency" :> OptDefault("string") @@ "isActive" :> OptDefault("boolean")

transactions ==
    "id" :> Serial @@ "userId" :> Req("number") @@ "accountId" :> Req("number")
    @@ "amount" :> Req("string") @@ "type" :> Req("string") @@ "category" :> Req("string")
    @@ "description" :> Opt("string") @@ "date" :> Req("string")
    @@ "createdAt" :> OptDefault("date")

financialGoals ==
    "id" :> Serial @@ "userId" :> Req("number") @@ "title" :> Req("string")
    @@ "targetAmount" :> Req("string") @@ "currentAmount" :> OptDefault("string")
    @@ "weeklyAllocation" :> Opt("string") @@ "targetDate" :> Opt("string")
    @@ "isActive" :> OptDefault("boolean")

healthScores ==
    "id" :> Serial @@ "userId" :> Req("number") @@ "month" :> Req("number")
    @@ "year" :> Req("number") @@ "spiritualScore" :> OptDefault("number")
    @@ "mentalScore" :> OptDefault("number") @@ "socialScore" :> OptDefault("number")
    @@ "physicalScore" :> OptDefault("number") @@ "financialScore" :> OptDefault("number")
    @@ "notes" :> Opt("string")

\* the entity kinds served over HTTP, each with its own Map in MemStorage
Kinds ==
    {"meetings", "todos", "projects", "scheduledItems", "passwords", "goals",
     "habitTracking", "habitLegends", "accounts", "transactions", "financialGoals",
     "healthScores"}
AllKinds == Kinds \cup {"users"}

Table(kind) ==
    CASE kind = "meetings" -> meetings
      [] kind = "todos" -> todos
      [] kind = "projects" -> projects
      [] kind = "scheduledItems" -> scheduledItems
      [] kind = "passwords" -> passwords
      [] kind = "goals" -> goals
      [] kind = "habitTracking" -> habitTracking
      [] kind = "habitLegends" -> habitLegends
      [] kind = "accounts" -> accounts
      [] kind = "transactions" -> transactions
      [] kind = "financialGoals" -> financialGoals
      [] kind = "healthScores" -> healthScores

Restrict(f, keys) == [k \in DOMAIN f \cap keys |-> f[k]]

\* createInsertSchema(table).omit({...})
Omitted(kind) ==
    CASE kind = "todos" -> {"id", "createdAt"}
      [] kind = "passwords" -> {"id", "createdAt", "updatedAt"}
      [] kind = "transactions" -> {"id", "createdAt"}
      [] OTHER -> {"id"}
InsertSchema(kind) == Restrict(Table(kind), DOMAIN Table(kind) \ Omitted(kind))

\* every key optional, as if the insert schema were always .partial()
FieldAcceptsLax(col, body, f, partial) ==
    f \in DOMAIN body => (body[f].t = col.type \/ (body[f].t = "null" /\ ~col.notNull))
\* One key of a z.object: a column that is not null and has no default is
\* required; a nullable column accepts null; with .partial() every key is optional.
FieldAccepts(col, body, f, partial) ==
    IF f \in DOMAIN body
    THEN body[f].t = col.type \/ (body[f].t = "null" /\ ~col.notNull)
    ELSE partial \/ ~col.notNull \/ col.hasDefault

\* schema.parse(body) succeeds
ParseOk(schema, body, partial) ==
    \A f \in DOMAIN schema : FieldAccepts(schema[f], body, f, partial)
\* the body as it came, the keys the schema does not have included
ParseDataPassthrough(schema, body) == body
\* the parsed object: the schema's keys that the body carries; others are stripped
ParseData(schema, body) == Restrict(body, DOMAIN schema)

\* -------------------------------------------------------------- MemStorage
\* Each createX(insert) builds { ...insert, id, <defaults> } for the id it took
\* from the counter; `now` is the value of new Date() (createPassword evaluates
\* new Date() twice: `now` and then `later`).
createUser(insertUser, id) == Spread(insertUser, "id" :> Num(id))

createMeeting(insertMeeting, id) ==
    Spread(insertMeeting,
           "id" :> Num(id) @@ "color" :> Coalesce(insertMeeting, "color", Null))

createTodo(insertTodo, id, now) ==
    Spread(insertTodo,
           "id" :> Num(id) @@ "createdAt" :> DateObj(now)
           @@ "description" :> Coalesce(insertTodo, "description", Null)
           @@ "priority" :> Coalesce(insertTodo, "priority", Str(<<"m", "e", "d", "i", "u", "m">>))
           @@ "estimatedDuration" :> Coalesce(insertTodo, "estimatedDuration", Null)
           @@ "completed" :> Coalesce(insertTodo, "completed", Null)
           @@ "projectId" :> Coalesce(insertTodo, "projectId", Null)
           @@ "dueDate" :> Coalesce(insertTodo, "dueDate", Null))

createProject(insertProject, id) ==
    Spread(insertProject,
           "id" :> Num(id) @@ "color" :> Coalesce(insertProject, "color", Null)
           @@ "description" :> Coalesce(insertProject, "description", Null))

createScheduledItem(insertItem, id) ==
    Spread(insertItem,
           "id" :> Num(id) @@ "color" :> Coalesce(insertItem, "color", Null)
           @@ "originalId" :> Coalesce(insertItem, "originalId", Null))

\* the password is stored as a digest of the submitted string
createPasswordHashed(insertPassword, id, now, later) ==
    Spread(insertPassword,
           "id" :> Num(id) @@ "createdAt" :> DateObj(now) @@ "updatedAt" :> DateObj(later)
           @@ "password" :> Str(<<"#">> \o insertPassword["password"].s)
           @@ "url" :> Coalesce(insertPassword, "url", Null)
           @@ "username" :> Coalesce(insertPassword, "username", Null)
           @@ "email" :> Coalesce(insertPassword, "email", Null)
           @@ "notes" :> Coalesce(insertPassword, "notes", Null))
createPassword(insertPassword, id, now, later) ==
    Spread(insertPassword,
           "id" :> Num(id) @@ "createdAt" :> DateObj(now) @@ "updatedAt" :> DateObj(later)
           @@ "url" :> Coalesce(insertPassword, "url", Null)
           @@ "username" :> Coalesce(insertPassword, "username", Null)
           @@ "email" :> Coalesce(insertPassword, "email", Null)
           @@ "notes" :> Coalesce(insertPassword, "notes", Null))

createGoal(insertGoal, id) ==
    Spread(insertGoal,
           "id" :> Num(id) @@ "description" :> Coalesce(insertGoal, "description", Null)
           @@ "targetValue" :> Coalesce(insertGoal, "targetValue", Null)
           @@ "currentValue" :> Coalesce(insertGoal, "currentValue", Null)
           @@ "unit" :> Coalesce(insertGoal, "unit", Null)
           @@ "targetDate" :> Coalesce(insertGoal, "targetDate", Null)
           @@ "isActive" :> Coalesce(insertGoal, "isActive", Null))

createHabitTracking(insertTracking, id) == Spread(insertTracking, "id" :> Num(id))

createHabitLegend(insertLegend, id) == Spread(insertLegend, "id" :> Num(id))

createAccount(insertAccount, id) ==
    Spread(insertAccount,
           "id" :> Num(id) @@ "isActive" :> Coalesce(insertAccount, "isActive", Null)
           @@ "balance" :> Coalesce(insertAccount, "balance", Str(<<"0", ".", "0", "0">>))
           @@ "currency" :> Coalesce(insertAccount, "currency", Null))

createTransaction(insertTransaction, id, now) ==
    Spread(insertTransaction,
           "id" :> Num(id) @@ "createdAt" :> DateObj(now)
           @@ "description" :> Coalesce(insertTransaction, "description", Null))

createFinancialGoal(insertGoal, id) ==
    Spread(insertGoal,
           "id" :> Num(id) @@ "targetDate" :> Coalesce(insertGoal, "targetDate", Null)
           @@ "isActive" :> Coalesce(insertGoal, "isActive", Null)
           @@ "currentAmount" :> Coalesce(insertGoal, "currentAmount", Null)
           @@ "weeklyAllocation" :> Coalesce(insertGoal, "weeklyAllocation", Null))

createHealthScore(insertScore, id) ==
    Spread(insertScore,
           "id" :> Num(id) @@ "notes" :> Coalesce(insertScore, "notes", Null)
           @@ "spiritualScore" :> Coalesce(insertScore, "spiritualScore", Null)
           @@ "mentalScore" :> Coalesce(insertScore, "mentalScore", Null)
           @@ "socialScore" :> Coalesce(insertScore, "socialScore", Null)
           @@ "physicalScore" :> Coalesce(insertScore, "physicalScore", Null)
           @@ "financialScore" :> Coalesce(insertScore, "financialScore", Null))

\* the record the route's storage.createX call stores
NewRecord(kind, insert, id, now, later) ==
    CASE kind = "users" -> createUser(insert, id)
      [] kind = "meetings" -> createMeeting(insert, id)
      [] kind = "todos" -> createTodo(insert, id, now)
      [] kind = "projects" -> createProject(insert, id)
      [] kind = "scheduledItems" -> createScheduledItem(insert, id)
      [] kind = "passwords" -> createPassword(insert, id, now, later)
      [] kind = "goals" -> createGoal(insert, id)
      [] kind = "habitTracking" -> createHabitTracking(insert, id)
      [] kind = "habitLegends" -> createHabitLegend(insert, id)
      [] kind = "accounts" -> createAccount(insert, id)
      [] kind = "transactions" -> createTransaction(insert, id, now)
      [] kind = "financialGoals" -> createFinancialGoal(insert, id)
      [] kind = "healthScores" -> createHealthScore(insert, id)

\* the payload alone, without the spread of the existing record
updateReplace(existing, partial) == partial
\* the record is rebuilt from its identity and the payload:
\* { id: existing.id, userId: existing.userId, ...partial }
updateRebuild(existing, partial) ==
    Spread([f \in DOMAIN existing \cap {"id", "userId"} |-> existing[f]], partial)
\* the spreads in the other order: the existing record's values win
updateMergeOldWins(existing, partial) == Spread(partial, existing)
\* updateMeeting, updateTodo, updateScheduledItem, updateHealthScore:
\* const updated = { ...existing, ...partial }
updateMerge(existing, partial) == Spread(existing, partial)
\* updatePassword: { ...existing, ...password, updatedAt: new Date() }
updatePassword(existing, password, now) ==
    Spread(Spread(existing, password), "updatedAt" :> DateObj(now))

UpdatedRecord(kind, existing, partial, now) ==
    IF kind = "passwords" THEN updatePassword(existing, partial, now)
    ELSE updateMerge(existing, partial)

\* find instead of filter: the first match only
getByUserFirst(m, userId) ==
    LET hits == SelectSeq(MapValues(m), LAMBDA r : r["userId"] = Num(userId))
    IN  IF hits = <<>> THEN <<>> ELSE <<Head(hits)>>
\* the filter without its date test
getByUserAnyDate(m, userId, date) ==
    SelectSeq(MapValues(m), LAMBDA r : r["userId"] = Num(userId))
\* getXByUser: Array.from(map.values()).filter(x => x.userId === userId)
getByUser(m, userId) ==
    SelectSeq(MapValues(m), LAMBDA r : r["userId"] = Num(userId))
\* getMeetingsByUserAndDate, getScheduledItemsByUserAndDate
getByUserAndDate(m, userId, date) ==
    SelectSeq(MapValues(m), LAMBDA r : r["userId"] = Num(userId) /\ r["date"] = Str(date))
\* no record is found
getHealthScoreNowhere(m, userId, month, year) == <<>>
\* getHealthScoreByUserAndMonth: the first match, or undefined (the empty sequence)
getHealthScoreByUserAndMonth(m, userId, month, year) ==
    LET hits == SelectSeq(MapValues(m),
                          LAMBDA r : /\ r["userId"] = Num(userId)
                                     /\ ~month.nan /\ r["month"] = Num(month.v)
                                     /\ ~year.nan /\ r["year"] = Num(year.v))
    IN  IF hits = <<>> THEN <<>> ELSE <<Head(hits)>>

\* new Date(text) for a date column's text and its getFullYear(), getMonth() + 1
\* and getDate(): "YYYY-MM-DD" is midnight UTC of that day, which in a time
\* zone west of UTC is the evening of the day before; any other text is an
\* Invalid Date, whose getters give NaN
IsIsoDate(cs) ==
    /\ Len(cs) = 10 /\ cs[5] = "-" /\ cs[8] = "-"
    /\ \A i \in {1, 2, 3, 4, 6, 7, 9, 10} : cs[i] \in DigitChars
    /\ ParseInt(SubSeq(cs, 6, 7)).v \in 1..12
    /\ ParseInt(SubSeq(cs, 9, 10)).v \in 1..31
LocalDate(cs, west) ==
    IF ~IsIsoDate(cs) THEN [nan |-> TRUE, year |-> 0, month |-> 0]
    ELSE LET year == ParseInt(SubSeq(cs, 1, 4)).v
             month == ParseInt(SubSeq(cs, 6, 7)).v
             day == ParseInt(SubSeq(cs, 9, 10)).v
         IN  IF west /\ day = 1
             THEN [nan |-> FALSE, year |-> IF month = 1 THEN year - 1 ELSE year,
                   month |-> IF month = 1 THEN 12 ELSE month - 1]
             ELSE [nan |-> FALSE, year |-> year, month |-> month]

\* getHabitTrackingByUserAndMonth: the user's records whose date falls in the
\* month of the year, in the server's time zone
getHabitTrackingByUserAndMonth(m, userId, month, year, west) ==
    SelectSeq(MapValues(m),
              LAMBDA r : LET trackingDate == LocalDate(r["date"].s, west)
                         IN  /\ r["userId"] = Num(userId)
                             /\ ~trackingDate.nan /\ ~month.nan /\ ~year.nan
                             /\ trackingDate.month = month.v
                             /\ trackingDate.year = year.v)

\* ------------------------------------------------------------------- state
VARIABLES
    store,      \* MemStorage's Maps: entity kind -> Map<number, record>
    currentId,  \* MemStorage.currentId
    initPc,     \* initializeDefaultData: how many default legends are created
    clock,      \* the latest value new Date() has returned (time never runs back)
    issued,     \* history: the id of every record a create has returned, in order
    last,       \* history: the HTTP exchange just served (request and response),
                \* NoExchange once its response has been delivered
    awaiting,   \* the handlers suspended at `await storage.updateX(...)`, in the
                \* order they resume, each with the exchange it will complete
    planner,    \* the DailyPlanner page: selectedDate, the data of its queries,
                \* the query cache's scheduled-items entries, whether the
                \* response to a mutation is on its way, the id of the element
                \* being dragged (empty when none is), draggedItem (the
                \* empty sequence for null or undefined), the resize gesture
                \* in progress (what handleMouseDown's closure holds), the
                \* update mutations issued and not yet sent, each with the
                \* pointer position that sent it, and how often the pointer
                \* has moved in a gesture
    outbox,     \* the create-scheduled-item mutations issued and not yet served
    handled,    \* history: the drag event the page has just handled, NoEvent
                \* once the page has rendered again
    health,     \* the HealthTracker page: selectedMonth and selectedYear, the
                \* query cache's entry for the current score of each month,
                \* whether the dialog is open and the values of its form,
                \* the mutations submitted and not yet sent, whether a
                \* mutation's response is on its way, and (history) whether a
                \* submit was made while the page was not at rest
    tracker     \* the GoalTracker page: the data of its goals, habit-legends
                \* and habit-tracking queries, whether the tracking query is
                \* invalidated, the create-tracking mutations issued and not
                \* yet served, whether a mutation's response is on its way,
                \* and (history) the clicks made on cells while a legend was
                \* loaded, each with what the cell displayed

server == <<store, currentId, initPc, clock, issued, last, awaiting>>
client == <<planner, outbox, handled, tracker, health>>
vars == <<store, currentId, initPc, clock, issued, last, awaiting, planner, outbox, handled,
         tracker, health>>

\* registerRoutes: const currentUserId = 1
currentUserId == 1

EmptyObj == [k \in {} |-> Null]

defaultLegends(userId) ==
    << "userId" :> Num(userId) @@ "iconKey" :> Str(<<"c", "o", "m", "p", "l", "e", "t", "e", "d">>) @@ "label" :> Str(<<"C", "o", "m", "p", "l", "e", "t", "e", "d">>)
       @@ "icon" :> Str(<<"C", "h", "e", "c", "k", "C", "i", "r", "c", "l", "e">>) @@ "color" :> Str(<<"#", "1", "0", "B", "9", "8", "1">>),
       "userId" :> Num(userId) @@ "iconKey" :> Str(<<"n", "o", "t", "_", "c", "o", "m", "p", "l", "e", "t", "e", "d">>) @@ "label" :> Str(<<"N", "o", "t", " ", "C", "o", "m", "p", "l", "e", "t", "e", "d">>)
       @@ "icon" :> Str(<<"X">>) @@ "color" :> Str(<<"#", "E", "F", "4", "4", "4", "4">>),
       "userId" :> Num(userId) @@ "iconKey" :> Str(<<"n", "o", "t", "_", "a", "p", "p", "l", "i", "c", "a", "b", "l", "e">>) @@ "label" :> Str(<<"N", "o", "t", " ", "A", "p", "p", "l", "i", "c", "a", "b", "l", "e">>)
       @@ "icon" :> Str(<<"M", "i", "n", "u", "s">>) @@ "color" :> Str(<<"#", "6", "B", "7", "2", "8", "0">>),
       "userId" :> Num(userId) @@ "iconKey" :> Str(<<"p", "a", "r", "t", "i", "a", "l">>) @@ "label" :> Str(<<"P", "a", "r", "t", "i", "a", "l">>)
       @@ "icon" :> Str(<<"C", "i", "r", "c", "l", "e">>) @@ "color" :> Str(<<"#", "F", "5", "9", "E", "0", "B">>) >>

\* the counter read but not advanced
TakeIdStuck(c) == [id |-> c, next |-> c]
\* the counter advanced before it is read: ++this.currentId
TakeIdPreIncrement(c) == [id |-> c + 1, next |-> c + 1]
\* const id = this.currentId++
TakeId(c) == [id |-> c, next |-> c + 1]

Exchange(method, kind, params, body, status, res) ==
    [method |-> method, kind |-> kind, params |-> params, body |-> body,
     status |-> status, res |-> res]
NoExchange == Exchange("NONE", "none", <<>>, EmptyObj, 0, <<>>)

\* a DragEndEvent: active.id and over (null when the drop is outside every droppable)
NoOver == [isNull |-> TRUE, id |-> <<>>]
Over(id) == [isNull |-> FALSE, id |-> id]
DragEndEvent(activeId, over) == [fired |-> TRUE, active |-> activeId, over |-> over]
NoEvent == [fired |-> FALSE, active |-> <<>>, over |-> NoOver]

\* a click on the cell of a habit and a day, with the status the cell displayed
\* (the empty text for an empty cell) and whether the page was at rest
CellClicked(habitId, date, displayed, atRest) ==
    [habitId |-> habitId, date |-> date, displayed |-> displayed, atRest |-> atRest]

\* getCurrentDate(): the day the page is opened
Today == <<"2", "0", "2", "5", "-", "0", "6", "-", "1", "6">>
\* the dates the date input is set to
D16 == <<"2", "0", "2", "5", "-", "0", "6", "-", "1", "6">>
D17 == <<"2", "0", "2", "5", "-", "0", "6", "-", "1", "7">>
Dates == {D16, D17}
\* the months the HealthTracker's month select is set to
ScoreMonths == {6, 7}
\* an entry of the query cache under ["/api/scheduled-items", date]: whether the
\* query has data, the data, and whether invalidateQueries has marked it
NoData == [has |-> FALSE, data |-> <<>>, invalid |-> FALSE]

\* new MemStorage(): the constructor empties the Maps, sets currentId = 1 and
\* calls initializeDefaultData(), which runs up to its first await: createUser
\* has taken id 1 and stored the demo user.
Init ==
    LET t == TakeId(1)
        demo == createUser("username" :> Str(<<"d", "e", "m", "o">>) @@ "password" :> Str(<<"d", "e", "m", "o">>), t.id)
    IN  /\ store = [k \in AllKinds |-> IF k = "users" THEN MapSet(EmptyMap, t.id, demo)
                                       ELSE EmptyMap]
        /\ currentId = t.next
        /\ initPc = 0
        /\ clock = 0
        /\ issued = <<demo["id"].n>>
        /\ last = NoExchange
        /\ awaiting = <<>>
        /\ planner = [selectedDate |-> Today, meetings |-> <<>>, todos |-> <<>>,
                      scheduledItems |-> <<>>,
                      cache |-> [d \in Dates |-> NoData], pending |-> FALSE,
                      dragging |-> <<>>, draggedItem |-> <<>>,
                      resizing |-> <<>>, updates |-> <<>>, moves |-> 0]
        /\ outbox = <<>>
        /\ handled = NoEvent
        /\ tracker = [goals |-> <<>>, habitLegends |-> <<>>, habitTracking |-> <<>>,
                      invalid |-> FALSE, queue |-> <<>>, pending |-> FALSE,
                      clicks |-> <<>>]
        /\ health = [selectedMonth |-> LocalDate(Today, FALSE).month,
                     selectedYear |-> LocalDate(Today, FALSE).year,
                     cache |-> [month \in ScoreMonths |-> NoData],
                     dialogOpen |-> FALSE, form |-> EmptyObj,
                     queue |-> <<>>, pending |-> FALSE, hasty |-> FALSE]

\* the continuation of initializeDefaultData: one createHabitLegend per step
InitLegend ==
    /\ initPc < Len(defaultLegends(1))
    /\ LET defaultUser == store["users"][1].val
           legend == defaultLegends(defaultUser["id"].n)[initPc + 1]
           t == TakeId(currentId)
           created == createHabitLegend(legend, t.id)
       IN  /\ store' = [store EXCEPT !["habitLegends"] = MapSet(@, t.id, created)]
           /\ currentId' = t.next
           /\ issued' = Append(issued, created["id"].n)
    /\ initPc' = initPc + 1
    /\ UNCHANGED <<clock, last, awaiting>>
    /\ UNCHANGED client

\* Requests are served once the module's start-up continuation has run, one at
\* a time: a handler awaits only promises that are already settled, so it runs
\* to its response before the event loop takes the next request.
Serving == initPc = Len(defaultLegends(1)) /\ last = NoExchange /\ handled = NoEvent

\* the response has been delivered
Deliver ==
    /\ last # NoExchange
    /\ ~planner.pending /\ ~tracker.pending /\ ~health.pending
    /\ last' = NoExchange
    /\ UNCHANGED <<store, currentId, initPc, clock, issued, awaiting>>
    /\ UNCHANGED client

\* new Date() after a reading of `before`
Reading(before) == {before, before + 1} \cap (0..MaxTime)

\* how many times the kind's createX evaluates new Date()
ClockReads(kind) ==
    CASE kind = "passwords" -> 2
      [] kind \in {"todos", "transactions"} -> 1
      [] OTHER -> 0

\* ------------------------------------------------------------ request inputs

\* request bodies that pass the kind's insert schema
ValidBodies(kind) ==
    CASE kind = "meetings" ->
            {"title" :> Str(<<"A">>) @@ "startTime" :> Str(<<"0", "9", ":", "0", "0">>) @@ "duration" :> Num(30)
             @@ "date" :> Str(d) : d \in Dates}
      [] kind = "todos" ->
            {"title" :> Str(<<"A">>),
             "title" :> Str(<<"A">>) @@ "estimatedDuration" :> Num(45) @@ "completed" :> Bool(FALSE)}
      [] kind = "projects" -> {"name" :> Str(<<"P">>)}
      [] kind = "scheduledItems" ->
            {"title" :> Str(<<"A">>) @@ "startTime" :> Str(<<"1", "0", ":", "0", "0">>) @@ "duration" :> Num(30)
             @@ "date" :> Str(D16) @@ "type" :> Str(<<"c", "u", "s", "t", "o", "m">>)}
      [] kind = "passwords" -> {"siteName" :> Str(<<"S">>) @@ "password" :> Str(<<"p", "w">>)}
      [] kind = "goals" ->
            {"title" :> Str(<<"A">>) @@ "category" :> Str(<<"c">>) @@ "startDate" :> Str(D16)}
      [] kind = "habitTracking" ->
            {"habitId" :> Num(6) @@ "date" :> Str(D16) @@ "status" :> Str(<<"p", "a", "r", "t", "i", "a", "l">>)
             @@ "iconKey" :> Str(<<"p", "a", "r", "t", "i", "a", "l">>)}
      [] kind = "habitLegends" ->
            {"iconKey" :> Str(<<"k">>) @@ "label" :> Str(<<"L">>) @@ "icon" :> Str(<<"X">>)
             @@ "color" :> Str(<<"#", "0", "0", "0">>)}
      [] kind = "accounts" -> {"name" :> Str(<<"N">>) @@ "type" :> Str(<<"s", "a", "v", "i", "n", "g", "s">>)}
      [] kind = "transactions" ->
            {"accountId" :> Num(6) @@ "amount" :> Str(<<"1", ".", "0", "0">>) @@ "type" :> Str(<<"i", "n", "c", "o", "m", "e">>)
             @@ "category" :> Str(<<"c">>) @@ "date" :> Str(D16)}
      [] kind = "financialGoals" -> {"title" :> Str(<<"A">>) @@ "targetAmount" :> Str(<<"9", ".", "0", "0">>)}
      [] kind = "healthScores" ->
            {"month" :> Num(6) @@ "year" :> Num(2025) @@ "mentalScore" :> Num(m) : m \in {5, 7}}

\* a required key of the kind's insert schema, used to build rejected bodies
Probe(kind) ==
    CASE kind \in {"meetings", "todos", "scheduledItems", "goals", "financialGoals"} -> "title"
      [] kind \in {"projects", "accounts"} -> "name"
      [] kind = "passwords" -> "siteName"
      [] kind = "habitTracking" -> "habitId"
      [] kind = "habitLegends" -> "iconKey"
      [] kind = "transactions" -> "accountId"
      [] kind = "healthScores" -> "month"

BaseBody(kind) == CHOOSE b \in ValidBodies(kind) : TRUE
\* a body without a required key, and one with a key of the wrong type
MissingBody(kind) == Restrict(BaseBody(kind), DOMAIN BaseBody(kind) \ {Probe(kind)})
MistypedBody(kind) == Spread(BaseBody(kind), Probe(kind) :> Bool(TRUE))
\* a valid body that also carries keys the schema does not have (id is omitted)
UnknownKeys == "extra" :> Str(<<"x">>) @@ "id" :> Num(1)
UnknownBody(kind) == Spread(BaseBody(kind), UnknownKeys)

\* the bodies POSTed to a kind: every valid body when the run looks at the kind
\* closely (rich), else one; with the rejected and the over-full ones
PostBodies(kind, rich) ==
    (IF rich THEN ValidBodies(kind) ELSE {BaseBody(kind)})
    \cup {MissingBody(kind), MistypedBody(kind), UnknownBody(kind)}

PutKinds == {"meetings", "todos", "scheduledItems", "passwords", "healthScores"}
DeleteKinds == {"meetings", "todos", "scheduledItems", "passwords"}

PutBodies(kind, rich) ==
    {UnknownKeys, Probe(kind) :> Bool(TRUE)} \cup
    CASE kind = "meetings" -> {"date" :> Str(D17)}
                              \cup (IF rich THEN {"userId" :> Num(2)} ELSE {})
      [] kind = "todos" -> {"completed" :> Bool(TRUE)}
                           \cup (IF rich THEN {"userId" :> Num(2)} ELSE {})
      [] kind = "scheduledItems" -> {"duration" :> Num(15)}
      [] kind = "passwords" -> {"password" :> Str(<<"q">>)}
      [] kind = "healthScores" -> {"mentalScore" :> Num(9)}

\* :id path parameters: the decimal form of the last start-up id and of the ids
\* the counter can issue to requests, one such id followed by a letter, and a word
ApiIds == (Len(defaultLegends(1)) + 2)..MaxId
IdParams ==
    {NumToString(i) : i \in {Len(defaultLegends(1)) + 1} \cup ApiIds}
    \cup {NumToString(Len(defaultLegends(1)) + 2) \o <<"x">>, <<"a", "b", "c">>}

\* -------------------------------------------------------------- HTTP routes
SuccessObj == "success" :> Bool(TRUE)

\* app.post("/api/<kind>"): parse { ...req.body, userId: currentUserId }, create,
\* answer the record; any throw (the parse's) is answered 400.
PostWithin(cap, kind, body) ==
    /\ Serving
    /\ LET input == Spread(body, "userId" :> Num(currentUserId))
           schema == InsertSchema(kind)
       IN  IF ParseOk(schema, input, FALSE)
           THEN /\ currentId <= cap
                /\ \E now \in Reading(clock), later \in Reading(clock) \cup Reading(clock + 1) :
                      /\ later \in Reading(now)
                      /\ ClockReads(kind) = 0 => now = clock
                      /\ ClockReads(kind) < 2 => later = now
                      /\ LET t == TakeId(currentId)
                             rec == NewRecord(kind, ParseData(schema, input), t.id, now, later)
                         IN  /\ store' = [store EXCEPT ![kind] = MapSet(@, t.id, rec)]
                             /\ currentId' = t.next
                             /\ issued' = Append(issued, rec["id"].n)
                             /\ clock' = later
                             /\ last' = Exchange("POST", kind, <<>>, body, 200, <<rec>>)
                /\ UNCHANGED <<initPc, awaiting>>
           ELSE /\ last' = Exchange("POST", kind, <<>>, body, 400, <<>>)
                /\ UNCHANGED <<store, currentId, initPc, clock, issued, awaiting>>

Post(kind, body) == PostWithin(MaxId, kind, body)

\* app.put("/api/<kind>/:id"): parseInt the id, parse the body against the
\* partial schema (400 on a throw), update (404 when the store returns undefined).
Put(kind, param, body) ==
    /\ Serving
    /\ LET id == ParseInt(param)
           schema == InsertSchema(kind)
       IN  IF ~ParseOk(schema, body, TRUE)
           THEN /\ last' = Exchange("PUT", kind, <<param>>, body, 400, <<>>)
                /\ UNCHANGED <<store, clock>>
           ELSE IF ~MapHas(store[kind], id)
           THEN /\ last' = Exchange("PUT", kind, <<param>>, body, 404, <<>>)
                /\ UNCHANGED <<store, clock>>
           ELSE \E now \in Reading(clock) :
                   /\ kind # "passwords" => now = clock
                   /\ LET updated == UpdatedRecord(kind, MapGet(store[kind], id),
                                                   ParseData(schema, body), now)
                      IN  /\ store' = [store EXCEPT ![kind] = MapSet(@, id.v, updated)]
                          /\ last' = Exchange("PUT", kind, <<param>>, body, 200, <<updated>>)
                   /\ clock' = now
    /\ UNCHANGED <<currentId, initPc, issued, awaiting>>

\* the scheduled items that refer to the deleted record go with it
DeleteCascading(kind, param) ==
    /\ Serving
    /\ LET id == ParseInt(param)
       IN  IF MapHas(store[kind], id)
           THEN /\ store' = [store EXCEPT
                                ![kind] = MapDelete(@, id),
                                !["scheduledItems"] =
                                    IF kind = "scheduledItems" THEN MapDelete(@, id)
                                    ELSE SelectSeq(@, LAMBDA e : e.val["originalId"] # Num(id.v))]
                /\ last' = Exchange("DELETE", kind, <<param>>, EmptyObj, 200, <<SuccessObj>>)
           ELSE /\ last' = Exchange("DELETE", kind, <<param>>, EmptyObj, 404, <<>>)
                /\ UNCHANGED store
    /\ UNCHANGED <<currentId, initPc, clock, issued, awaiting>>
\* app.delete("/api/<kind>/:id"): 404 when Map.delete returns false
Delete(kind, param) ==
    /\ Serving
    /\ LET id == ParseInt(param)
       IN  IF MapHas(store[kind], id)
           THEN /\ store' = [store EXCEPT ![kind] = MapDelete(@, id)]
                /\ last' = Exchange("DELETE", kind, <<param>>, EmptyObj, 200, <<SuccessObj>>)
           ELSE /\ last' = Exchange("DELETE", kind, <<param>>, EmptyObj, 404, <<>>)
                /\ UNCHANGED store
    /\ UNCHANGED <<currentId, initPc, clock, issued, awaiting>>

\* the kinds whose collection route takes no path parameter
ListKinds == Kinds \ {"meetings", "scheduledItems", "habitTracking"}

\* app.get("/api/<kind>"): the demo user's records
GetList(kind) ==
    /\ Serving
    /\ last' = Exchange("GET", kind, <<>>, EmptyObj, 200, getByUser(store[kind], currentUserId))
    /\ UNCHANGED <<store, currentId, initPc, clock, issued, awaiting>>

\* app.get("/api/meetings/:date"), app.get("/api/scheduled-items/:date")
GetByDate(kind, date) ==
    /\ Serving
    /\ last' = Exchange("GET", kind, <<date>>, EmptyObj, 200,
                        getByUserAndDate(store[kind], currentUserId, date))
    /\ UNCHANGED <<store, currentId, initPc, clock, issued, awaiting>>

\* app.get("/api/health-scores/:month/:year"): res.json(score || null)
GetHealthScore(month, year) ==
    /\ Serving
    /\ LET score == getHealthScoreByUserAndMonth(store["healthScores"], currentUserId,
                                                 ParseInt(month), ParseInt(year))
       IN  last' = Exchange("GET", "healthScores", <<month, year>>, EmptyObj, 200, score)
    /\ UNCHANGED <<store, currentId, initPc, clock, issued, awaiting>>

\* One action per route shape of registerRoutes, over the given kinds; a
\* request is taken up only when the server is ready for one (Serving).
PostRoute(kinds, rich) ==
    /\ Serving
    /\ \E kind \in kinds : \E body \in PostBodies(kind, rich) : Post(kind, body)
    /\ UNCHANGED client
PutRoute(kinds, rich) ==
    /\ Serving
    /\ \E kind \in kinds \cap PutKinds : \E param \in IdParams :
          \E body \in PutBodies(kind, rich) : Put(kind, param, body)
    /\ UNCHANGED client
DeleteRoute(kinds) ==
    /\ Serving
    /\ \E kind \in kinds \cap DeleteKinds : \E param \in IdParams : Delete(kind, param)
    /\ UNCHANGED client
ListRoute(kinds) ==
    /\ Serving
    /\ \E kind \in kinds \cap ListKinds : GetList(kind)
    /\ UNCHANGED client
DateRoute(kinds) ==
    /\ Serving
    /\ \E kind \in kinds \cap {"meetings", "scheduledItems"} : \E date \in Dates :
          GetByDate(kind, date)
    /\ UNCHANGED client
HealthScoreRoute ==
    /\ Serving
    /\ \E month \in {<<"6">>, <<"7">>} : GetHealthScore(month, <<"2", "0", "2", "5">>)
    /\ UNCHANGED client

\* ------------------------------------------------- the DailyPlanner page
\* String.padStart(2, "0")
PadStart2(cs) == IF Len(cs) < 2 THEN <<"0">> \o cs ELSE cs
\* getTimeSlots(): "08:00", "09:00", ..., "18:00"
getTimeSlots == [i \in 1..11 |-> PadStart2(NumToString(i + 7)) \o <<":", "0", "0">>]

\* TimeSlot: useDroppable({ id: `time-${time}` })
DroppableId(time) == <<"t", "i", "m", "e", "-">> \o time
\* MeetingsPanel and TodoPanel: the ids of the DraggableItems
MeetingElementId(meeting) == <<"m", "e", "e", "t", "i", "n", "g", "-">> \o NumToString(meeting["id"].n)
TodoElementId(todo) == <<"t", "o", "d", "o", "-">> \o NumToString(todo["id"].n)

\* the pattern is not applied: every id yields its last five characters
MatchTimeAny(cs) == [isNull |-> FALSE, group |-> SubSeq(cs, Len(cs) - 4, Len(cs))]
\* String.match(/time-(\d{2}:\d{2})/): the first place where the pattern
\* matches, and its group
MatchTime(cs) ==
    LET hits == {i \in 1..Len(cs) :
                    /\ i + 9 <= Len(cs)
                    /\ SubSeq(cs, i, i + 4) = <<"t", "i", "m", "e", "-">>
                    /\ cs[i + 5] \in DigitChars /\ cs[i + 6] \in DigitChars
                    /\ cs[i + 7] = ":"
                    /\ cs[i + 8] \in DigitChars /\ cs[i + 9] \in DigitChars}
        first == CHOOSE i \in hits : \A j \in hits : i <= j
    IN  IF hits = {} THEN [isNull |-> TRUE, group |-> <<>>]
        ELSE [isNull |-> FALSE, group |-> SubSeq(cs, first + 5, first + 9)]

\* meetings.find(m => `meeting-${m.id}` === draggedId): the first such meeting,
\* or none (<<>>)
FindMeeting(list, draggedId) ==
    LET hits == SelectSeq(list, LAMBDA m : MeetingElementId(m) = draggedId)
    IN  IF hits = <<>> THEN <<>> ELSE <<Head(hits)>>
\* todos.find(t => `todo-${t.id}` === draggedId)
FindTodo(list, draggedId) ==
    LET hits == SelectSeq(list, LAMBDA t : TodoElementId(t) = draggedId)
    IN  IF hits = <<>> THEN <<>> ELSE <<Head(hits)>>

\* a || d for a property of an object
OrElse(o, f, d) == IF Truthy(o, f) THEN o[f] ELSE d

\* the todos TodoPanel renders as draggable: not completed, in one of the
\* three priority sections
DraggableTodos(list) ==
    SelectSeq(list, LAMBDA t :
        /\ ~Truthy(t, "completed")
        /\ t["priority"] \in {Str(<<"h", "i", "g", "h">>), Str(<<"m", "e", "d", "i", "u", "m">>), Str(<<"l", "o", "w">>)})

\* the ids of the elements the page lets the user drag
DraggableIds(p) ==
    {MeetingElementId(p.meetings[i]) : i \in DOMAIN p.meetings}
    \cup {TodoElementId(t) : t \in {DraggableTodos(p.todos)[i] : i \in DOMAIN DraggableTodos(p.todos)}}

\* the duration a todo without an estimate is scheduled for
DefaultTodoDuration == 30
ProviderDefaultTodoDuration == 60

\* handleDragEnd of the page that wraps its panels in DragDropProvider
handleDragEndProvider(p, event) ==
    IF event.over.isNull THEN <<>>
    ELSE LET draggedId == event.active
             timeMatch == MatchTime(event.over.id)
             meeting == FindMeeting(p.meetings, draggedId)
             todo == FindTodo(p.todos, draggedId)
         IN  IF timeMatch.isNull THEN <<>>
             ELSE IF meeting # <<>>
             THEN << "title" :> meeting[1]["title"] @@ "startTime" :> Str(timeMatch.group)
                     @@ "duration" :> meeting[1]["duration"] @@ "date" :> Str(p.selectedDate)
                     @@ "type" :> Str(<<"m", "e", "e", "t", "i", "n", "g">>) @@ "originalId" :> meeting[1]["id"] >>
             ELSE IF todo # <<>>
             THEN << "title" :> todo[1]["title"] @@ "startTime" :> Str(timeMatch.group)
                     @@ "duration" :> OrElse(todo[1], "estimatedDuration",
                                             Num(ProviderDefaultTodoDuration))
                     @@ "date" :> Str(p.selectedDate)
                     @@ "type" :> Str(<<"t", "o", "d", "o">>) @@ "originalId" :> todo[1]["id"] >>
             ELSE <<>>

\* the todo's estimate is not read: every todo gets a default duration
handleDragEndNoEstimate(p, event) ==
    handleDragEndProvider(
        [p EXCEPT !.todos = [i \in DOMAIN p.todos |->
                                Spread(p.todos[i], "estimatedDuration" :> Null)]],
        event)

\* handleDragEnd of the page that hands it to DailyTimeline: the payloads of
\* the createScheduledItemMutation.mutate calls it makes, in order
handleDragEnd(p, event) ==
    IF event.over.isNull THEN <<>>
    ELSE LET draggedId == event.active
             timeMatch == MatchTime(event.over.id)
             meeting == FindMeeting(p.meetings, draggedId)
             todo == FindTodo(p.todos, draggedId)
         IN  IF timeMatch.isNull THEN <<>>
             ELSE IF meeting # <<>>
             THEN << "title" :> meeting[1]["title"] @@ "startTime" :> Str(timeMatch.group)
                     @@ "duration" :> meeting[1]["duration"] @@ "date" :> Str(p.selectedDate)
                     @@ "type" :> Str(<<"m", "e", "e", "t", "i", "n", "g">>) @@ "originalId" :> meeting[1]["id"]
                     @@ "color" :> OrElse(meeting[1], "color", Str(<<"#", "3", "B", "8", "2", "F", "6">>)) >>
             ELSE IF todo # <<>>
             THEN << "title" :> todo[1]["title"] @@ "startTime" :> Str(timeMatch.group)
                     @@ "duration" :> OrElse(todo[1], "estimatedDuration", Num(DefaultTodoDuration))
                     @@ "date" :> Str(p.selectedDate)
                     @@ "type" :> Str(<<"t", "o", "d", "o">>) @@ "originalId" :> todo[1]["id"]
                     @@ "color" :> Str(<<"#", "7", "C", "3", "A", "E", "D">>) >>
             ELSE <<>>

\* response.json(): what the page reads from a response; a Date has been
\* serialised as text (the text of instant n is written "T" n here)
FromJson(rec) ==
    [f \in DOMAIN rec |-> IF rec[f].t = "date" THEN Str(<<"T">> \o NumToString(rec[f].n))
                          ELSE rec[f]]
ResponseJson(res) == [i \in DOMAIN res |-> FromJson(res[i])]

\* the page has rendered since the last drag event
PageIdle == handled = NoEvent
Settle ==
    /\ handled # NoEvent
    /\ handled' = NoEvent
    /\ UNCHANGED <<planner, outbox, tracker, health>>
    /\ UNCHANGED server

\* the date input's onChange: setSelectedDate(e.target.value); the meetings
\* query of the date has no data until it is fetched (data = []), the
\* scheduled-items query has what the cache holds for the date
SetSelectedDate(date) ==
    /\ PageIdle /\ last = NoExchange
    /\ date # planner.selectedDate
    /\ planner' = [planner EXCEPT !.selectedDate = date, !.meetings = <<>>,
                                  !.scheduledItems = planner.cache[date].data]
    /\ UNCHANGED <<outbox, handled, tracker, health>>
    /\ UNCHANGED server

\* useQuery(["/api/meetings", selectedDate]): GET /api/meetings/<selectedDate>
FetchMeetings ==
    /\ Serving
    /\ GetByDate("meetings", planner.selectedDate)
    /\ planner' = [planner EXCEPT !.meetings = ResponseJson(last'.res)]
    /\ UNCHANGED <<outbox, handled, tracker, health>>
\* useQuery(["/api/todos"]): GET /api/todos
FetchTodos ==
    /\ Serving
    /\ GetList("todos")
    /\ planner' = [planner EXCEPT !.todos = ResponseJson(last'.res)]
    /\ UNCHANGED <<outbox, handled, tracker, health>>
\* the slots the user drops on: "10:00" and the last
DropSlots == {getTimeSlots[i] : i \in {3, Len(getTimeSlots)}}
\* ids of droppables that are not time slots: one that lacks the hour's
\* leading zero, and one of another component under the same drag context
StrayDropIds == {DroppableId(<<"9", ":", "0", "0">>), <<"t", "r", "a", "s", "h">>}
\* the drag events the page can receive: a rendered draggable, dropped on a
\* time slot, on another droppable or outside every droppable
DragEvents(p) ==
    {DragEndEvent(activeId, over) :
        activeId \in DraggableIds(p),
        over \in {NoOver} \cup {Over(DroppableId(time)) : time \in DropSlots}
                 \cup {Over(id) : id \in StrayDropIds}}

\* the id cap leaves an id for one more mutation than are in flight (a drop
\* whose mutation could never be served is not looked at)
CanBeServedWithin(cap) == currentId + Len(outbox) <= cap
CanBeServed == CanBeServedWithin(MaxId)

\* a drop, handled by handleDragEnd
DragEndWithin(cap) ==
    /\ PageIdle /\ last = NoExchange
    /\ CanBeServedWithin(cap)
    /\ \E event \in DragEvents(planner) :
          /\ outbox' = outbox \o handleDragEnd(planner, event)
          /\ handled' = event
    /\ UNCHANGED <<planner, tracker, health>>
    /\ UNCHANGED server
DragEnd == DragEndWithin(MaxId)
\* handleDragStart: the first of [...meetings, ...todos, ...scheduledItems]
\* whose id, written bare or after "meeting-" or "todo-", is the active id
handleDragStart(p, activeId) ==
    LET hits == SelectSeq(p.meetings \o p.todos \o p.scheduledItems,
                          LAMBDA item : \/ NumToString(item["id"].n) = activeId
                                        \/ MeetingElementId(item) = activeId
                                        \/ TodoElementId(item) = activeId)
    IN  IF hits = <<>> THEN <<>> ELSE <<Head(hits)>>
\* the user picks up a draggable element: onDragStart
DragStart ==
    /\ PageIdle /\ last = NoExchange
    /\ planner.dragging = <<>>
    /\ \E activeId \in DraggableIds(planner) :
          planner' = [planner EXCEPT !.dragging = activeId,
                                     !.draggedItem = handleDragStart(planner, activeId)]
    /\ UNCHANGED <<outbox, handled, tracker, health>>
    /\ UNCHANGED server

\* handleDragEnd's setDraggedItem(null), at the end of the handler: the early
\* returns leave draggedItem as it is
draggedItemAfterEnd(p, event) ==
    IF event.over.isNull \/ MatchTime(event.over.id).isNull THEN p.draggedItem ELSE <<>>
\* a drop, handled by the handleDragEnd given to DragDropProvider; it ends the
\* drag of the element that was picked up
ProviderDragEndWithin(cap) ==
    /\ PageIdle /\ last = NoExchange
    /\ CanBeServedWithin(cap)
    /\ \E event \in DragEvents(planner) :
          /\ planner.dragging # <<>> => event.active = planner.dragging
          /\ outbox' = outbox \o handleDragEndProvider(planner, event)
          /\ handled' = event
          /\ planner' = [planner EXCEPT !.dragging = <<>>,
                                        !.draggedItem = draggedItemAfterEnd(planner, event)]
    /\ UNCHANGED <<tracker, health>>
    /\ UNCHANGED server
ProviderDragEnd == ProviderDragEndWithin(MaxId)
\* the drop that ends a drag begun by DragStart
Drop ==
    /\ planner.dragging # <<>>
    /\ ProviderDragEndWithin(MaxItemId)

\* createScheduledItemMutation's mutationFn reaches the server:
\* apiRequest("POST", "/api/scheduled-items", data)
SendMutationWithin(cap) ==
    /\ Serving
    /\ outbox # <<>>
    /\ PostWithin(cap, "scheduledItems", Head(outbox))
    /\ outbox' = Tail(outbox)
    /\ planner' = [planner EXCEPT !.pending = TRUE]
    /\ UNCHANGED <<handled, tracker, health>>
SendMutation == SendMutationWithin(MaxId)

\* useQuery(["/api/scheduled-items", selectedDate]):
\* GET /api/scheduled-items/<selectedDate>, when the query is mounted without
\* data, after invalidateQueries has marked it, or on any other refetch
FetchScheduledItems ==
    /\ Serving
    /\ ~planner.pending
    /\ GetByDate("scheduledItems", planner.selectedDate)
    /\ planner' = [planner EXCEPT
                      !.scheduledItems = ResponseJson(last'.res),
                      !.cache[planner.selectedDate] =
                          [has |-> TRUE, data |-> ResponseJson(last'.res), invalid |-> FALSE]]
    /\ UNCHANGED <<outbox, handled, tracker, health>>

\* queryClient.invalidateQueries({ queryKey: ["/api/scheduled-items", date] }):
\* the entry of that key, when the cache has one, is marked
invalidateQueries(cache, date) ==
    [d \in DOMAIN cache |-> IF d = date /\ cache[d].has
                            THEN [cache[d] EXCEPT !.invalid = TRUE] ELSE cache[d]]

\* the selectedDate that the onSuccess callback of the mutation closes over:
\* that of the render that called mutate (the payload's date) or that of the
\* latest render, whichever render's options the mutation runs its callbacks
\* from
ClosureDates(p, exchange) == {exchange.body["date"].s, p.selectedDate}

\* the response to the create mutation arrives: onSuccess invalidates the
\* scheduled-items query of selectedDate (and shows a toast); onError only
\* shows a toast
MutationSettled ==
    /\ planner.pending
    /\ last # NoExchange
    /\ \E date \in ClosureDates(planner, last) :
          planner' = [planner EXCEPT
                         !.pending = FALSE,
                         !.cache = IF last.status = 200 THEN invalidateQueries(@, date) ELSE @]
    /\ last' = NoExchange
    /\ UNCHANGED <<store, currentId, initPc, clock, issued, awaiting>>
    /\ UNCHANGED <<outbox, handled, tracker, health>>

\* app.post("/api/<kind>") when createX throws: the id has been taken
\* (this.currentId++) and Map.set raises RangeError because the Map holds as
\* many entries as the engine allows (the number of entries is not counted
\* here); the route's catch answers 400 as for a body that fails the schema.
CreateThrows(kinds) ==
    /\ Serving
    /\ currentId <= MaxId
    /\ \E kind \in kinds :
          LET body == BaseBody(kind)
              input == Spread(body, "userId" :> Num(currentUserId))
              t == TakeId(currentId)
          IN  /\ ParseOk(InsertSchema(kind), input, FALSE)
              /\ currentId' = t.next
              /\ issued' = Append(issued, t.id)
              /\ last' = Exchange("POST", kind, <<>>, body, 400, <<>>)
    /\ UNCHANGED <<store, initPc, clock, awaiting>>
    /\ UNCHANGED client

\* the bodies of PUT requests that are in flight together: those of PutBodies
\* that name a schema key, and one that sets another field than they do
ConcurrentPutBodies(kind) ==
    (PutBodies(kind, FALSE) \ {UnknownKeys}) \cup {Probe(kind) :> Str(<<"B">>)}
\* their :id parameters: the ids the counter can issue to requests
ConcurrentIdParams == {NumToString(i) : i \in ApiIds}

\* app.put("/api/<kind>/:id") up to its await: parseInt, the partial parse
\* (a throw is answered 400 at once) and the whole of storage.updateX (get,
\* spread and set run without an await between them); the handler then
\* waits for the promise updateX returned.
PutBegin(kind, param, body) ==
    /\ Serving
    /\ Len(awaiting) < MaxAwaiting
    /\ LET id == ParseInt(param)
           schema == InsertSchema(kind)
       IN  IF ~ParseOk(schema, body, TRUE)
           THEN /\ last' = Exchange("PUT", kind, <<param>>, body, 400, <<>>)
                /\ UNCHANGED <<store, clock, awaiting>>
           ELSE IF ~MapHas(store[kind], id)
           THEN /\ awaiting' = Append(awaiting, Exchange("PUT", kind, <<param>>, body, 404, <<>>))
                /\ UNCHANGED <<store, clock, last>>
           ELSE \E now \in Reading(clock) :
                   /\ kind # "passwords" => now = clock
                   /\ LET updated == UpdatedRecord(kind, MapGet(store[kind], id),
                                                   ParseData(schema, body), now)
                      IN  /\ store' = [store EXCEPT ![kind] = MapSet(@, id.v, updated)]
                          /\ awaiting' = Append(awaiting,
                                 Exchange("PUT", kind, <<param>>, body, 200, <<updated>>))
                   /\ clock' = now
                   /\ UNCHANGED last
    /\ UNCHANGED <<currentId, initPc, issued>>

\* the handlers begin in the order the requests arrive, at any time the event
\* loop is free, also while earlier ones are suspended
PutBeginRoute(kinds) ==
    /\ Serving
    /\ \E kind \in kinds \cap PutKinds : \E param \in ConcurrentIdParams :
          \E body \in ConcurrentPutBodies(kind) : PutBegin(kind, param, body)
    /\ UNCHANGED client

\* the handler suspended first resumes after its await: 404 when updateX
\* returned undefined, else res.json(record)
PutResume ==
    /\ last = NoExchange
    /\ awaiting # <<>>
    /\ last' = Head(awaiting)
    /\ awaiting' = Tail(awaiting)
    /\ UNCHANGED <<store, currentId, initPc, clock, issued>>
    /\ UNCHANGED client

\* --------------------------------------------------- the GoalTracker page
\* app.get("/api/habit-tracking/:month/:year"), in whichever time zone the
\* server runs
GetHabitTracking(month, year) ==
    /\ Serving
    /\ \E west \in BOOLEAN :
          last' = Exchange("GET", "habitTracking", <<month, year>>, EmptyObj, 200,
                           getHabitTrackingByUserAndMonth(store["habitTracking"], currentUserId,
                                                          ParseInt(month), ParseInt(year), west))
    /\ UNCHANGED <<store, currentId, initPc, clock, issued, awaiting>>

\* useState(new Date().getMonth() + 1), useState(new Date().getFullYear())
selectedMonth == LocalDate(Today, FALSE).month
selectedYear == LocalDate(Today, FALSE).year
\* the days of the month whose cells are clicked
CellDays == {16, 17}
\* `${selectedYear}-${selectedMonth.toString().padStart(2, '0')}-${day.toString().padStart(2, '0')}`
CellDate(day) ==
    NumToString(selectedYear) \o <<"-">> \o PadStart2(NumToString(selectedMonth))
    \o <<"-">> \o PadStart2(NumToString(day))

\* Array.find: the first element that satisfies the test, or undefined (the
\* empty sequence)
First(hits) == IF hits = <<>> THEN <<>> ELSE <<Head(hits)>>
\* habitLegends.findIndex(l => l.iconKey === iconKey): the index, from 0, of the
\* first such legend, or -1
findIndex(legends, iconKey) ==
    IF \E i \in DOMAIN legends : legends[i]["iconKey"] = iconKey
    THEN (CHOOSE i \in DOMAIN legends :
             /\ legends[i]["iconKey"] = iconKey
             /\ \A j \in 1..(i - 1) : legends[j]["iconKey"] # iconKey) - 1
    ELSE 0 - 1

getTrackingForGoalAndDate(t, goalId, date) ==
    First(SelectSeq(t.habitTracking,
                    LAMBDA r : r["habitId"] = goalId /\ r["date"] = Str(date)))
getLegendByKey(t, iconKey) ==
    First(SelectSeq(t.habitLegends, LAMBDA l : l["iconKey"] = iconKey))
\* the rows of the grid: goals.filter(goal => goal.isActive)
ActiveGoals(t) == SelectSeq(t.goals, LAMBDA goal : goal["isActive"] = Bool(TRUE))
\* the status a cell displays: the iconKey of the legend whose icon it shows,
\* the empty text for a cell without an icon
Displayed(t, goalId, date) ==
    LET tracking == getTrackingForGoalAndDate(t, goalId, date)
        legend == IF tracking = <<>> THEN <<>> ELSE getLegendByKey(t, tracking[1]["iconKey"])
    IN  IF legend = <<>> THEN <<>> ELSE legend[1]["iconKey"].s

TrackingPayload(goal, date, legend) ==
    "habitId" :> goal["id"] @@ "date" :> Str(date)
    @@ "status" :> legend["iconKey"] @@ "iconKey" :> legend["iconKey"]
\* a cell that has a record is left as it is
handleCellClickOnce(t, goal, day) ==
    LET date == CellDate(day)
        existing == getTrackingForGoalAndDate(t, goal["id"], date)
    IN  IF existing # <<>> \/ t.habitLegends = <<>> THEN <<>>
        ELSE <<TrackingPayload(goal, date, t.habitLegends[1])>>
\* handleCellClick(goal, day): the payloads it hands to
\* createHabitTrackingMutation.mutate (none or one)
handleCellClick(t, goal, day) ==
    LET date == CellDate(day)
        existing == getTrackingForGoalAndDate(t, goal["id"], date)
    IN  IF t.habitLegends = <<>> THEN <<>>
        ELSE IF existing # <<>>
        THEN LET currentIndex == findIndex(t.habitLegends, existing[1]["iconKey"])
                 nextIndex == (currentIndex + 1) % Len(t.habitLegends)
             IN  <<TrackingPayload(goal, date, t.habitLegends[nextIndex + 1])>>
        ELSE <<TrackingPayload(goal, date, t.habitLegends[1])>>

\* nothing of the page is on its way: no mutation is waiting or being served
\* and the tracking query has been fetched since the last one succeeded
AtRest(t) == t.queue = <<>> /\ ~t.pending /\ ~t.invalid

\* useQuery(["/api/goals"]), useQuery(["/api/habit-legends"]),
\* useQuery(["/api/habit-tracking", selectedMonth, selectedYear])
FetchGoals ==
    /\ Serving /\ ~tracker.pending
    /\ GetList("goals")
    /\ tracker' = [tracker EXCEPT !.goals = ResponseJson(last'.res)]
    /\ UNCHANGED <<planner, outbox, handled, health>>
FetchLegends ==
    /\ Serving /\ ~tracker.pending
    /\ GetList("habitLegends")
    /\ tracker' = [tracker EXCEPT !.habitLegends = ResponseJson(last'.res)]
    /\ UNCHANGED <<planner, outbox, handled, health>>
FetchTracking ==
    /\ Serving /\ ~tracker.pending
    /\ GetHabitTracking(NumToString(selectedMonth), NumToString(selectedYear))
    /\ tracker' = [tracker EXCEPT !.habitTracking = ResponseJson(last'.res),
                                  !.invalid = FALSE]
    /\ UNCHANGED <<planner, outbox, handled, health>>

\* a click on the cell of a rendered goal and a day; the id cap leaves an id
\* for every mutation it issues
CellClick ==
    /\ currentId + Len(tracker.queue) <= MaxItemId
    /\ \E i \in DOMAIN ActiveGoals(tracker), day \in CellDays :
          LET goal == ActiveGoals(tracker)[i]
              click == CellClicked(goal["id"].n, CellDate(day),
                                   Displayed(tracker, goal["id"], CellDate(day)),
                                   AtRest(tracker))
          IN  tracker' = [tracker EXCEPT
                             !.queue = @ \o handleCellClick(tracker, goal, day),
                             !.clicks = IF tracker.habitLegends = <<>> THEN @
                                        ELSE Append(@, click)]
    /\ UNCHANGED <<planner, outbox, handled, health>>
    /\ UNCHANGED server

\* createHabitTrackingMutation's mutationFn: POST /api/habit-tracking with the
\* payload, the requests served in the order they were issued
SendTracking ==
    /\ Serving
    /\ tracker.queue # <<>>
    /\ PostWithin(MaxItemId, "habitTracking", Head(tracker.queue))
    /\ tracker' = [tracker EXCEPT !.queue = Tail(@), !.pending = TRUE]
    /\ UNCHANGED <<planner, outbox, handled, health>>
\* the mutation settles: onSuccess invalidates the tracking query
TrackingSettled ==
    /\ tracker.pending /\ last # NoExchange
    /\ tracker' = [tracker EXCEPT !.pending = FALSE,
                                  !.invalid = @ \/ last.status = 200]
    /\ last' = NoExchange
    /\ UNCHANGED <<store, currentId, initPc, clock, issued, awaiting>>
    /\ UNCHANGED <<planner, outbox, handled, health>>

\* POST /api/goals with the body of an active goal or of one that leaves
\* isActive out
GoalBodies == {BaseBody("goals"), Spread(BaseBody("goals"), "isActive" :> Bool(TRUE))}
PostGoal ==
    /\ Serving
    /\ \E body \in GoalBodies : Post("goals", body)
    /\ UNCHANGED client

\* ------------------------------------------------- the HealthTracker page
\* the values the mental-health slider is left at
ScoreValues == {5, 7}
\* const { data: currentScore }: the score the query of the selected month
\* returned (null, the empty sequence, when it returned none)
currentScore(h) == h.cache[h.selectedMonth].data
\* nothing of the page is on its way: the current-score query has been fetched
\* since the last mutation succeeded and no mutation is waiting or being served
ScoresAtRest(h) ==
    /\ h.queue = <<>> /\ ~h.pending
    /\ h.cache[h.selectedMonth].has /\ ~h.cache[h.selectedMonth].invalid

\* useQuery(["/api/health-scores", selectedMonth, selectedYear]):
\* GET /api/health-scores/<selectedMonth>/<selectedYear>
FetchCurrentScore ==
    /\ Serving /\ ~health.pending
    /\ GetHealthScore(NumToString(health.selectedMonth), NumToString(health.selectedYear))
    /\ health' = [health EXCEPT !.cache[health.selectedMonth] =
                                    [has |-> TRUE, data |-> ResponseJson(last'.res),
                                     invalid |-> FALSE]]
    /\ UNCHANGED <<planner, outbox, handled, tracker>>
\* the month select's onValueChange: setSelectedMonth(Number(value)); the
\* select is out of reach while the dialog is open
SetSelectedMonth(month) ==
    /\ last = NoExchange
    /\ ~health.dialogOpen
    /\ month # health.selectedMonth
    /\ health' = [health EXCEPT !.selectedMonth = month]
    /\ UNCHANGED <<planner, outbox, handled, tracker>>
    /\ UNCHANGED server

\* handleEdit: form.reset with the current score's values, or with the
\* defaults for the selected month and year
handleEdit(h) ==
    IF currentScore(h) # <<>>
    THEN LET score == currentScore(h)[1]
         IN  "month" :> score["month"] @@ "year" :> score["year"]
             @@ "spiritualScore" :> score["spiritualScore"]
             @@ "mentalScore" :> score["mentalScore"]
             @@ "socialScore" :> score["socialScore"]
             @@ "physicalScore" :> score["physicalScore"]
             @@ "financialScore" :> score["financialScore"]
             @@ "notes" :> OrElse(score, "notes", Str(<<>>))
    ELSE "month" :> Num(h.selectedMonth) @@ "year" :> Num(h.selectedYear)
         @@ "spiritualScore" :> Num(5) @@ "mentalScore" :> Num(5)
         @@ "socialScore" :> Num(5) @@ "physicalScore" :> Num(5)
         @@ "financialScore" :> Num(5) @@ "notes" :> Str(<<>>)
\* the button of the dialog's trigger is pressed (the page shows it once the
\* current-score query has data): handleEdit, and the dialog opens
OpenDialog ==
    /\ last = NoExchange
    /\ health.cache[health.selectedMonth].has
    /\ ~health.dialogOpen
    /\ health' = [health EXCEPT !.form = handleEdit(health), !.dialogOpen = TRUE]
    /\ UNCHANGED <<planner, outbox, handled, tracker>>
    /\ UNCHANGED server

CreateScore(data) == [method |-> "POST", id |-> 0, data |-> data]
UpdateScore(id, data) == [method |-> "PUT", id |-> id, data |-> data]
\* onSubmit(data): the mutation it calls mutate on
onSubmit(h, data) ==
    IF currentScore(h) # <<>> THEN UpdateScore(currentScore(h)[1]["id"].n, data)
    ELSE CreateScore(data)
\* the id cap leaves an id for every create waiting to be sent
CreatesWaiting(h) == Len(SelectSeq(h.queue, LAMBDA mu : mu.method = "POST"))
\* the form is submitted, with the mental-health slider at one of its values;
\* at most as many mutations wait to be sent as the id cap allows creates
Submit ==
    /\ last = NoExchange
    /\ health.dialogOpen
    /\ currentScore(health) = <<>> => currentId + CreatesWaiting(health) <= MaxId
    /\ Len(health.queue) < MaxId - Len(defaultLegends(1)) - 1
    /\ \E v \in ScoreValues :
          health' = [health EXCEPT
                        !.form = Spread(@, "mentalScore" :> Num(v)),
                        !.queue = Append(@, onSubmit(health,
                                                     Spread(health.form, "mentalScore" :> Num(v)))),
                        !.hasty = @ \/ ~ScoresAtRest(health)]
    /\ UNCHANGED <<planner, outbox, handled, tracker>>
    /\ UNCHANGED server

\* the mutationFn of createHealthScoreMutation or updateHealthScoreMutation
\* reaches the server, the requests served in the order they were issued
SendScore ==
    /\ Serving
    /\ health.queue # <<>>
    /\ LET mu == Head(health.queue)
       IN  IF mu.method = "POST" THEN Post("healthScores", mu.data)
           ELSE Put("healthScores", NumToString(mu.id), mu.data)
    /\ health' = [health EXCEPT !.queue = Tail(@), !.pending = TRUE]
    /\ UNCHANGED <<planner, outbox, handled, tracker>>
\* the mutation settles: onSuccess invalidates every query whose key begins
\* with "/api/health-scores" and closes the dialog
ScoreSettled ==
    /\ health.pending /\ last # NoExchange
    /\ health' = [health EXCEPT
                     !.pending = FALSE,
                     !.dialogOpen = @ /\ last.status # 200,
                     !.cache = [month \in DOMAIN @ |->
                                   [@[month] EXCEPT !.invalid = @ \/ last.status = 200]]]
    /\ last' = NoExchange
    /\ UNCHANGED <<store, currentId, initPc, clock, issued, awaiting>>
    /\ UNCHANGED <<planner, outbox, handled, tracker>>

\* ----------------------------------------------- resizing a scheduled item
\* Math.max(a, b)
Max(a, b) == IF a >= b THEN a ELSE b
\* Math.round(n / d) for integers n and d > 0: the nearest integer, a half
\* rounded towards plus infinity
MathRoundOf(n, d) == (2 * n + d) \div (2 * d)

\* clientY of the mouse-down, and the positions the pointer is moved to
StartY == 100
MoveYs == {20, 99, 101, 160}

\* handleMouseDown: what its closure keeps for the gesture
ResizeGesture(item, startY) ==
    [id |-> item["id"].n, startY |-> startY, startDuration |-> item["duration"].n]
\* the duration is counted from what the item shows now
handleMouseMoveFromShown(p, clientY) ==
    LET gesture == p.resizing[1]
        shown == SelectSeq(p.scheduledItems, LAMBDA item : item["id"].n = gesture.id)
        deltaY == clientY - gesture.startY
        from == IF shown = <<>> THEN gesture.startDuration ELSE shown[1]["duration"].n
    IN  Max(15, from + MathRoundOf(deltaY, 2))
\* handleMouseMove: newDuration
handleMouseMove(p, clientY) ==
    LET gesture == p.resizing[1]
        deltaY == clientY - gesture.startY
    IN  Max(15, gesture.startDuration + MathRoundOf(deltaY, 2))

\* onMouseDown on the resize handle of a scheduled item the timeline shows
MouseDown ==
    /\ last = NoExchange
    /\ planner.resizing = <<>>
    /\ planner.moves < MaxMoves
    /\ \E i \in DOMAIN planner.scheduledItems :
          planner' = [planner EXCEPT
                         !.resizing = <<ResizeGesture(planner.scheduledItems[i], StartY)>>]
    /\ UNCHANGED <<outbox, handled, tracker, health>>
    /\ UNCHANGED server
\* a mousemove on the document during the gesture:
\* onUpdate({ duration: newDuration }), which is
\* updateScheduledItemMutation.mutate({ id, data })
MouseMove ==
    /\ last = NoExchange
    /\ planner.resizing # <<>>
    /\ planner.moves < MaxMoves
    /\ \E clientY \in MoveYs :
          planner' = [planner EXCEPT
                         !.updates = Append(@, [id |-> planner.resizing[1].id,
                                                data |-> "duration" :> Num(handleMouseMove(planner, clientY)),
                                                clientY |-> clientY]),
                         !.moves = @ + 1]
    /\ UNCHANGED <<outbox, handled, tracker, health>>
    /\ UNCHANGED server
\* handleMouseUp: the listeners are removed
MouseUp ==
    /\ last = NoExchange
    /\ planner.resizing # <<>>
    /\ planner' = [planner EXCEPT !.resizing = <<>>]
    /\ UNCHANGED <<outbox, handled, tracker, health>>
    /\ UNCHANGED server

\* updateScheduledItemMutation's mutationFn reaches the server:
\* apiRequest("PUT", `/api/scheduled-items/${id}`, data)
SendUpdate ==
    /\ Serving
    /\ planner.updates # <<>>
    /\ Put("scheduledItems", NumToString(Head(planner.updates).id), Head(planner.updates).data)
    /\ planner' = [planner EXCEPT !.updates = Tail(@), !.pending = TRUE]
    /\ UNCHANGED <<outbox, handled, tracker, health>>
\* the update settles: onSuccess invalidates the scheduled-items query of the
\* selected date
UpdateSettled ==
    /\ planner.pending /\ last # NoExchange /\ last.method = "PUT"
    /\ planner' = [planner EXCEPT
                      !.pending = FALSE,
                      !.cache = IF last.status = 200
                                THEN invalidateQueries(@, planner.selectedDate) ELSE @]
    /\ last' = NoExchange
    /\ UNCHANGED <<store, currentId, initPc, clock, issued, awaiting>>
    /\ UNCHANGED <<outbox, handled, tracker, health>>

\* ------------------------------------------------------ the DailyTimeline
\* every slot shows every item
getItemsForTimeSlotUnfiltered(items, time) == items
\* getItemsForTimeSlot: scheduledItems.filter(item => item.startTime === time)
getItemsForTimeSlot(items, time) ==
    SelectSeq(items, LAMBDA item : item["startTime"] = Str(time))
\* timeSlots.map(...): the slots under which the timeline renders a
\* ScheduledItem for the item
RenderedIn(items, item) ==
    {i \in DOMAIN getTimeSlots :
        \E j \in DOMAIN getItemsForTimeSlot(items, getTimeSlots[i]) :
            getItemsForTimeSlot(items, getTimeSlots[i])[j] = item}

\* Creating, deleting and listing, for every entity kind.
Next ==
    \/ InitLegend
    \/ Deliver
    \/ PostRoute(Kinds, FALSE)
    \/ DeleteRoute(Kinds)
    \/ ListRoute(Kinds)
    \/ DateRoute(Kinds)
    \/ HealthScoreRoute

\* Every route of three kinds that can be updated: one listed by date, one
\* stamped with the time of its updates, one that has no DELETE route.
CrudKinds == {"meetings", "passwords", "healthScores"}
CrudNext ==
    \/ InitLegend
    \/ Deliver
    \/ PostRoute(CrudKinds, FALSE)
    \/ PutRoute(CrudKinds, FALSE)
    \/ DeleteRoute(CrudKinds)
    \/ ListRoute(CrudKinds)
    \/ DateRoute(CrudKinds)
    \/ HealthScoreRoute

\* One kind at a time, with every body of the input sets.
TodoNext ==
    \/ InitLegend
    \/ Deliver
    \/ PostRoute({"todos"}, TRUE)
    \/ PutRoute({"todos"}, TRUE)
    \/ DeleteRoute({"todos"})
    \/ ListRoute({"todos"})

MeetingNext ==
    \/ InitLegend
    \/ Deliver
    \/ PostRoute({"meetings"}, TRUE)
    \/ PutRoute({"meetings"}, TRUE)
    \/ DeleteRoute({"meetings"})
    \/ DateRoute({"meetings"})

HealthNext ==
    \/ InitLegend
    \/ Deliver
    \/ PostRoute({"healthScores"}, TRUE)
    \/ PutRoute({"healthScores"}, TRUE)
    \/ ListRoute({"healthScores"})
    \/ HealthScoreRoute

\* The DailyPlanner page in front of the server.
PlannerNext ==
    \/ InitLegend
    \/ Deliver
    \/ Settle
    \/ PostRoute({"meetings"}, FALSE)
    \/ PostRoute({"todos"}, TRUE)
    \/ \E date \in Dates : SetSelectedDate(date)
    \/ FetchMeetings
    \/ FetchTodos
    \/ DragEnd
    \/ ProviderDragEnd
    \/ SendMutation
    \/ MutationSettled

Spec == Init /\ [][Next]_vars
CrudSpec == Init /\ [][CrudNext]_vars
TodoSpec == Init /\ [][TodoNext]_vars
MeetingSpec == Init /\ [][MeetingNext]_vars
HealthSpec == Init /\ [][HealthNext]_vars
PlannerSpec == Init /\ [][PlannerNext]_vars

\* The meetings routes when the store can fail.
FaultNext ==
    \/ InitLegend
    \/ Deliver
    \/ PostRoute({"meetings"}, FALSE)
    \/ CreateThrows({"meetings"})
    \/ PutRoute({"meetings"}, FALSE)
    \/ DeleteRoute({"meetings"})
    \/ DateRoute({"meetings"})
FaultSpec == Init /\ [][FaultNext]_vars

\* The scheduled-items routes.
ItemNext ==
    \/ InitLegend
    \/ Deliver
    \/ PostRoute({"scheduledItems"}, FALSE)
    \/ PutRoute({"scheduledItems"}, FALSE)
    \/ DeleteRoute({"scheduledItems"})
    \/ DateRoute({"scheduledItems"})
ItemSpec == Init /\ [][ItemNext]_vars

\* The todos routes with the PUT handlers split at their await.
ConcurrentNext ==
    \/ InitLegend
    \/ Deliver
    \/ PostRoute({"todos"}, FALSE)
    \/ PutBeginRoute({"todos"})
    \/ PutResume
    \/ ListRoute({"todos"})
ConcurrentSpec == Init /\ [][ConcurrentNext]_vars

\* The page's todos dropped on time slots, up to two scheduled items.
SlotNext ==
    \/ InitLegend
    \/ Deliver
    \/ Settle
    \/ PostRoute({"todos"}, FALSE)
    \/ FetchTodos
    \/ DragEndWithin(MaxItemId)
    \/ SendMutationWithin(MaxItemId)
    \/ MutationSettled
    \/ DateRoute({"scheduledItems"})
SlotSpec == Init /\ [][SlotNext]_vars

\* The page's timeline: its scheduled-items query, the date input and the
\* create mutation with its onSuccess.
TimelineNext ==
    \/ InitLegend
    \/ Deliver
    \/ Settle
    \/ PostRoute({"todos"}, FALSE)
    \/ FetchTodos
    \/ FetchScheduledItems
    \/ \E date \in Dates : SetSelectedDate(date)
    \/ DragEnd
    \/ SendMutation
    \/ MutationSettled
TimelineSpec == Init /\ [][TimelineNext]_vars

\* The passwords routes.
PasswordNext ==
    \/ InitLegend
    \/ Deliver
    \/ PostRoute({"passwords"}, TRUE)
    \/ PutRoute({"passwords"}, TRUE)
    \/ DeleteRoute({"passwords"})
    \/ ListRoute({"passwords"})
PasswordSpec == Init /\ [][PasswordNext]_vars

\* The GoalTracker page: goals are created, the page fetches its queries,
\* cells are clicked and the mutations are served and settle.
HabitNext ==
    \/ InitLegend
    \/ Deliver
    \/ PostGoal
    \/ FetchGoals
    \/ FetchLegends
    \/ FetchTracking
    \/ CellClick
    \/ SendTracking
    \/ TrackingSettled
HabitSpec == Init /\ [][HabitNext]_vars

\* The page that wraps its panels in DragDropProvider: meetings and todos are
\* created, the page fetches its queries, elements are picked up and dropped.
DragNext ==
    \/ InitLegend
    \/ Deliver
    \/ Settle
    \/ PostRoute({"meetings"}, TRUE)
    \/ PostRoute({"todos"}, FALSE)
    \/ FetchMeetings
    \/ FetchTodos
    \/ FetchScheduledItems
    \/ DragStart
    \/ Drop
    \/ SendMutationWithin(MaxItemId)
    \/ MutationSettled
DragSpec == Init /\ [][DragNext]_vars

\* The HealthTracker page: it fetches the current score, the month is changed,
\* the dialog is opened and submitted, the mutations are served and settle.
ScoreNext ==
    \/ InitLegend
    \/ Deliver
    \/ FetchCurrentScore
    \/ \E month \in ScoreMonths : SetSelectedMonth(month)
    \/ OpenDialog
    \/ Submit
    \/ SendScore
    \/ ScoreSettled
ScoreSpec == Init /\ [][ScoreNext]_vars

\* A todo is created, dropped on the timeline, and then updated or deleted.
SourceNext ==
    \/ InitLegend
    \/ Deliver
    \/ Settle
    \/ PostRoute({"todos"}, FALSE)
    \/ PutRoute({"todos"}, FALSE)
    \/ DeleteRoute({"todos"})
    \/ FetchTodos
    \/ DragEnd
    \/ SendMutation
    \/ MutationSettled
    \/ DateRoute({"scheduledItems"})
SourceSpec == Init /\ [][SourceNext]_vars

\* Scheduled items are created, the timeline fetches them, and an item is
\* resized: while the pointer moves the updates are served and the timeline
\* is fetched again.
ResizeNext ==
    \/ InitLegend
    \/ Deliver
    \/ PostRoute({"scheduledItems"}, FALSE)
    \/ FetchScheduledItems
    \/ MouseDown
    \/ MouseMove
    \/ MouseUp
    \/ SendUpdate
    \/ UpdateSettled
ResizeSpec == Init /\ [][ResizeNext]_vars

\* The kinds that have a GET and a POST route and no other.
KeptKinds ==
    {"projects", "goals", "habitTracking", "habitLegends", "accounts", "transactions",
     "financialGoals"}
\* the days whose cells create the tracking records: the first of the month
\* and a day in the middle of it
TrackedDays == {1, 16}
\* POST /api/habit-tracking with the date of a cell of the selected month
PostTrackingOfDay ==
    /\ Serving
    /\ \E day \in TrackedDays :
          Post("habitTracking", Spread(BaseBody("habitTracking"), "date" :> Str(CellDate(day))))
    /\ UNCHANGED client
\* GET /api/habit-tracking/:month/:year for the selected month and the one before
TrackingRoute ==
    /\ Serving
    /\ \E month \in {selectedMonth - 1, selectedMonth} :
          GetHabitTracking(NumToString(month), NumToString(selectedYear))
    /\ UNCHANGED client
\* Every route of the kinds that cannot be updated or deleted, with the routes
\* of a kind that can.
KeptNext ==
    \/ InitLegend
    \/ Deliver
    \/ PostRoute(KeptKinds \cup {"todos"}, FALSE)
    \/ PostTrackingOfDay
    \/ PutRoute({"todos"}, FALSE)
    \/ DeleteRoute({"todos"})
    \/ ListRoute(KeptKinds)
    \/ TrackingRoute
KeptSpec == Init /\ [][KeptNext]_vars

\* =================================================================== claims
\* this step serves a request: `last'` is the exchange
Served == last = NoExchange /\ last' # NoExchange
\* the keys of every Map of the store
StoredIds(st) == UNION {MapKeys(st[k]) : k \in AllKinds}
\* the text is the decimal form of a key of the map
IsKeyText(m, text) == \E key \in MapKeys(m) : text = NumToString(key)

\* C1: the id of the record a successful create returns differs from the id of
\* every record an earlier create returned, deleted or not, of any kind, and
\* from the id of every record stored at the time of the create.
C1_CreatedIdIsFresh ==
    [][(Served /\ last'.method = "POST" /\ last'.status = 200) =>
          /\ Len(last'.res) = 1
          /\ last'.res[1]["id"].t = "number"
          /\ \A i \in DOMAIN issued : last'.res[1]["id"].n # issued[i]
          /\ \A k \in AllKinds : \A j \in DOMAIN store[k] :
                last'.res[1]["id"] # store[k][j].val["id"]]_vars
\* a create has just succeeded after the delete of a record a request had created
C1_Witness ==
    /\ last.method = "POST" /\ last.status = 200
    /\ \E i \in DOMAIN issued : issued[i] \in ApiIds /\ issued[i] \notin StoredIds(store)

\* C10: at any time no two stored records, of the same or of different kinds,
\* have the same id; the ids were issued in strictly increasing order; and the
\* counter is strictly greater than every id ever issued.
C10_OneCounter ==
    /\ \A k1 \in AllKinds, k2 \in AllKinds :
          \A i \in DOMAIN store[k1], j \in DOMAIN store[k2] :
             store[k1][i].val["id"] = store[k2][j].val["id"] => (k1 = k2 /\ i = j)
    /\ \A i \in DOMAIN issued, j \in DOMAIN issued : i < j => issued[i] < issued[j]
    /\ \A i \in DOMAIN issued : issued[i] < currentId
\* records of three kinds are stored, one of them created by a request, and a
\* record a request created has been deleted
C10_Witness ==
    /\ store["users"] # <<>> /\ store["habitLegends"] # <<>>
    /\ \E k \in Kinds \ {"habitLegends"} : MapKeys(store[k]) \cap ApiIds # {}
    /\ \E i \in DOMAIN issued : issued[i] \notin StoredIds(store)

\* the body lacks a key the kind's insert schema requires (the route supplies userId)
LacksRequired(kind, body) ==
    \E f \in (DOMAIN Table(kind) \ Omitted(kind)) \ {"userId"} :
        Table(kind)[f].notNull /\ ~Table(kind)[f].hasDefault /\ f \notin DOMAIN body
\* the keys of the kind's insert schema
SchemaKeys(kind) == DOMAIN Table(kind) \ Omitted(kind)
\* the body gives the key a value that is not of the column's type (null is a
\* value of a nullable column)
Mistyped(kind, body, f) ==
    /\ body[f].t # Table(kind)[f].type
    /\ ~(body[f].t = "null" /\ ~Table(kind)[f].notNull)
\* a POST body gives a key of the insert schema a value of another type
HasInvalidType(kind, body) ==
    \E f \in (DOMAIN body \cap SchemaKeys(kind)) \ {"userId"} : Mistyped(kind, body, f)
\* a PUT body does
PutInvalid(kind, body) ==
    \E f \in DOMAIN body \cap SchemaKeys(kind) : Mistyped(kind, body, f)
\* the body carries a key the insert schema does not have
HasUnknownField(kind, body) == ~(DOMAIN body \subseteq DOMAIN Table(kind) \ Omitted(kind))
StoreUntouched == store' = store /\ currentId' = currentId /\ issued' = issued

C3_DeleteOfNoKeyIs404 ==
    [][(Served /\ last'.method = "DELETE"
        /\ ~IsKeyText(store[last'.kind], last'.params[1])) =>
          (last'.status = 404 /\ StoreUntouched)]_vars

\* the record stored under the id in the Map
Stored(m, id) == m[CHOOSE i \in DOMAIN m : m[i].key = id].val
\* the PUT or DELETE being served addresses a key of its Map (the id is the
\* number parseInt reads from the path parameter)
Addressed == ParseInt(last'.params[1])
AddressedPresent == ~Addressed.nan /\ Addressed.v \in MapKeys(store[last'.kind])
\* every Map but the addressed one, and every other entry of that one, is as before
OthersUntouched ==
    /\ \A k \in AllKinds \ {last'.kind} : store'[k] = store[k]
    /\ Len(store'[last'.kind]) = Len(store[last'.kind])
    /\ \A i \in DOMAIN store[last'.kind] :
          /\ store'[last'.kind][i].key = store[last'.kind][i].key
          /\ store[last'.kind][i].key # Addressed.v => store'[last'.kind][i] = store[last'.kind][i]
    /\ currentId' = currentId /\ issued' = issued

\* C7 (as stated): an update (a PUT whose body passes the partial schema)
\* addressed to an id absent from the Map is answered 404 and leaves the store
\* unchanged; addressed to a present id it replaces the record by the shallow
\* merge of the old record and the payload, so that every field the payload
\* does not name keeps its value.
C7_UnnamedFieldsKeepValue ==
    [][(Served /\ last'.method = "PUT" /\ ~PutInvalid(last'.kind, last'.body)) =>
          IF ~AddressedPresent
          THEN last'.status = 404 /\ StoreUntouched
          ELSE /\ OthersUntouched
               /\ LET old == Stored(store[last'.kind], Addressed.v)
                      new == Stored(store'[last'.kind], Addressed.v)
                  IN  \A f \in DOMAIN old \ DOMAIN last'.body :
                         f \in DOMAIN new /\ new[f] = old[f]]_vars
\* C7 (amended): an update (a PUT whose body passes the partial schema; one
\* whose body fails it is answered 400, whatever the id) addressed to an id
\* absent from the Map is answered 404 and leaves the store unchanged;
\* addressed to a present id it replaces the record by the shallow merge of the old record
\* and the payload's schema keys, so that every field the payload does not
\* name keeps its value, except a password's updatedAt, which every update
\* sets to the time of the update.
C7_MergeButForUpdatedAt ==
    [][(Served /\ last'.method = "PUT") =>
          IF PutInvalid(last'.kind, last'.body)
          THEN last'.status = 400 /\ StoreUntouched
          ELSE IF ~AddressedPresent
          THEN last'.status = 404 /\ StoreUntouched
          ELSE /\ last'.status = 200
               /\ OthersUntouched
               /\ LET old == Stored(store[last'.kind], Addressed.v)
                      new == Stored(store'[last'.kind], Addressed.v)
                      named == DOMAIN last'.body \cap SchemaKeys(last'.kind)
                      stamp == IF last'.kind = "passwords" THEN {"updatedAt"} ELSE {}
                  IN  /\ last'.res = <<new>>
                      /\ DOMAIN new = DOMAIN old \cup named \cup stamp
                      /\ \A f \in named : new[f] = last'.body[f]
                      /\ \A f \in stamp : new[f] = DateObj(clock') /\ clock' >= clock
                      /\ \A f \in DOMAIN old \ (named \cup stamp) : new[f] = old[f]]_vars
\* a password has been updated at a later instant than it was created, by a
\* payload that does not name updatedAt
C7_Witness ==
    /\ last.method = "PUT" /\ last.kind = "passwords" /\ last.status = 200
    /\ "updatedAt" \notin DOMAIN last.body
    /\ last.res[1]["createdAt"] = DateObj(0)
    /\ last.res[1]["updatedAt"] = DateObj(MaxTime)
    /\ last.res[1]["password"] = last.body["password"]

\* C8: a DELETE of an existing id removes exactly that record and answers
\* { success: true }; from then on the id is never a key of the Map again, so
\* no GET returns a record with that id, a valid PUT to it is answered 404
\* and a second DELETE of it is answered 404.
C8_DeleteRemovesForGood ==
    [][/\ (Served /\ last'.method = "DELETE" /\ AddressedPresent) =>
             /\ last'.status = 200 /\ last'.res = <<SuccessObj>>
             /\ store'[last'.kind] =
                   SelectSeq(store[last'.kind], LAMBDA e : e.key # Addressed.v)
             /\ \A k \in AllKinds \ {last'.kind} : store'[k] = store[k]
             /\ currentId' = currentId
       /\ \A k \in AllKinds : \A i \in DOMAIN issued :
             issued[i] \notin MapKeys(store[k]) => issued[i] \notin MapKeys(store'[k])
       /\ (Served /\ last'.method = "GET") =>
             \A i \in DOMAIN last'.res :
                last'.res[i]["id"].n \in MapKeys(store[last'.kind])
       /\ (Served /\ last'.method = "PUT" /\ ~PutInvalid(last'.kind, last'.body)
           /\ ~AddressedPresent) => (last'.status = 404 /\ StoreUntouched)
       /\ (Served /\ last'.method = "DELETE" /\ ~AddressedPresent) =>
             (last'.status = 404 /\ StoreUntouched)]_vars
\* a DELETE of an id a request had created and a DELETE had removed has been
\* answered 404
C8_Witness ==
    /\ last.method = "DELETE" /\ last.status = 404
    /\ ~ParseInt(last.params[1]).nan
    /\ ParseInt(last.params[1]).v \in ApiIds
    /\ \E i \in DOMAIN issued : issued[i] = ParseInt(last.params[1]).v
    /\ ParseInt(last.params[1]).v \notin StoredIds(store)

\* the elements of a sequence
Range(seq) == {seq[i] : i \in DOMAIN seq}
\* the demo user's records in the Map
DemoRecords(m) == {m[i].val : i \in {j \in DOMAIN m : m[j].val["userId"] = Num(currentUserId)}}
\* the response lists exactly the records of the set, each once
ListsExactly(res, records) == Range(res) = records /\ Len(res) = Cardinality(records)

\* C2: a PUT /api/todos/:id with body { completed: true } that succeeds on a
\* todo of the demo user leaves in the Map, and so in what the next
\* GET /api/todos answers, a record with that id whose completed is true and
\* whose every other field has the value it had before the PUT; every other
\* todo is unchanged; GET /api/todos answers the demo user's stored todos.
C2_CompletingATodo ==
    [][/\ (Served /\ last'.method = "PUT" /\ last'.kind = "todos" /\ last'.status = 200
           /\ last'.body = ("completed" :> Bool(TRUE))) =>
             /\ AddressedPresent
             /\ OthersUntouched
             /\ LET old == Stored(store["todos"], Addressed.v)
                    new == Stored(store'["todos"], Addressed.v)
                IN  old["userId"] = Num(currentUserId) =>
                       /\ new \in DemoRecords(store'["todos"])
                       /\ new["id"] = Num(Addressed.v)
                       /\ new["completed"] = Bool(TRUE)
                       /\ DOMAIN new = DOMAIN old \cup {"completed"}
                       /\ \A f \in DOMAIN old \ {"completed"} : new[f] = old[f]
       /\ (Served /\ last'.method = "GET" /\ last'.kind = "todos") =>
             /\ ListsExactly(last'.res, DemoRecords(store["todos"]))
             /\ store' = store]_vars
\* GET /api/todos has answered two todos, one completed by a PUT and still
\* carrying its estimated duration of 45, the other not completed
C2_Witness ==
    /\ last.method = "GET" /\ last.kind = "todos" /\ Len(last.res) = 2
    /\ \E i \in DOMAIN last.res :
          /\ last.res[i]["completed"] = Bool(TRUE)
          /\ last.res[i]["estimatedDuration"] = Num(45)
    /\ \E i \in DOMAIN last.res : last.res[i]["completed"] # Bool(TRUE)

\* C4: GET /api/meetings/:date answers exactly the stored meetings whose
\* userId is the demo user's and whose date equals the path parameter, each once.
C4_MeetingsOfTheDate ==
    (last.method = "GET" /\ last.kind = "meetings") =>
        /\ last.status = 200
        /\ ListsExactly(last.res,
                        {r \in DemoRecords(store["meetings"]) : r["date"] = Str(last.params[1])})
\* the answer holds a meeting while a meeting of that date that a PUT has given
\* to another user is stored
C4_Witness ==
    /\ last.method = "GET" /\ last.kind = "meetings" /\ last.res # <<>>
    /\ \E i \in DOMAIN store["meetings"] :
          /\ store["meetings"][i].val["date"] = Str(last.params[1])
          /\ store["meetings"][i].val["userId"] # Num(currentUserId)

\* a stored health score of the demo user for the body's month and year
SameMonth(m, body) ==
    {r \in DemoRecords(m) : r["month"] = body["month"] /\ r["year"] = body["year"]}

\* C6: a valid POST /api/health-scores for a (user, month, year) that already
\* has a score succeeds: it stores a record under a new id and leaves the
\* earlier records as they were; GET /api/health-scores answers every stored
\* score of the demo user, so both.
C6_SecondScoreOfTheMonth ==
    [][/\ (Served /\ last'.method = "POST" /\ last'.kind = "healthScores"
           /\ ~LacksRequired("healthScores", last'.body)
           /\ ~HasInvalidType("healthScores", last'.body)
           /\ SameMonth(store["healthScores"], last'.body) # {}) =>
             /\ last'.status = 200
             /\ last'.res[1]["id"].n \notin MapKeys(store["healthScores"])
             /\ store'["healthScores"] =
                   Append(store["healthScores"],
                          [key |-> last'.res[1]["id"].n, val |-> last'.res[1]])
             /\ Cardinality(SameMonth(store'["healthScores"], last'.body))
                   = Cardinality(SameMonth(store["healthScores"], last'.body)) + 1
       /\ (Served /\ last'.method = "GET" /\ last'.kind = "healthScores"
           /\ last'.params = <<>>) =>
             ListsExactly(last'.res, DemoRecords(store["healthScores"]))]_vars
\* GET /api/health-scores has answered two scores of the same month and year
C6_Witness ==
    /\ last.method = "GET" /\ last.kind = "healthScores" /\ last.params = <<>>
    /\ \E i \in DOMAIN last.res, j \in DOMAIN last.res :
          /\ last.res[i]["id"] # last.res[j]["id"]
          /\ last.res[i]["month"] = last.res[j]["month"]
          /\ last.res[i]["year"] = last.res[j]["year"]

\* C5: when the page handles the drop of a todo of its todos query that has a
\* non-zero estimatedDuration d on the time slot labelled T, it issues exactly
\* one create-scheduled-item mutation, whose payload has startTime = T,
\* duration = d, type = "todo", originalId = the todo's id and date = the
\* selected date; the server answers the mutation with a stored ScheduledItem
\* that has the payload's values.
C5_TodoDropSchedulesIt ==
    [][/\ (handled = NoEvent /\ handled'.fired) =>
             \A i \in DOMAIN planner.todos : \A T \in Range(getTimeSlots) :
                (/\ handled'.active = <<"t", "o", "d", "o", "-">> \o NumToString(planner.todos[i]["id"].n)
                 /\ handled'.over = Over(<<"t", "i", "m", "e", "-">> \o T)
                 /\ planner.todos[i]["estimatedDuration"].t = "number"
                 /\ planner.todos[i]["estimatedDuration"].n # 0) =>
                   /\ Len(outbox') = Len(outbox) + 1
                   /\ SubSeq(outbox', 1, Len(outbox)) = outbox
                   /\ LET payload == outbox'[Len(outbox')]
                      IN  /\ payload["startTime"] = Str(T)
                          /\ payload["duration"] = planner.todos[i]["estimatedDuration"]
                          /\ payload["type"] = Str(<<"t", "o", "d", "o">>)
                          /\ payload["originalId"] = planner.todos[i]["id"]
                          /\ payload["date"] = Str(planner.selectedDate)
       /\ (outbox # <<>> /\ outbox' = Tail(outbox)) =>
             /\ last'.method = "POST" /\ last'.kind = "scheduledItems" /\ last'.status = 200
             /\ \A f \in DOMAIN Head(outbox) : last'.res[1][f] = Head(outbox)[f]
             /\ last'.res[1] \in Range(MapValues(store'["scheduledItems"]))]_vars
\* a todo estimated at 45 minutes has been dropped on "10:00" after the
\* selected date was changed, and the ScheduledItem is stored
C5_Witness ==
    \E i \in DOMAIN store["scheduledItems"] : \E j \in DOMAIN store["todos"] :
        LET item == store["scheduledItems"][i].val
            todo == store["todos"][j].val
        IN  /\ item["startTime"] = Str(<<"1", "0", ":", "0", "0">>) /\ item["duration"] = Num(45)
            /\ item["type"] = Str(<<"t", "o", "d", "o">>) /\ item["originalId"] = todo["id"]
            /\ todo["estimatedDuration"] = Num(45)
            /\ item["date"] = Str(D17) /\ planner.selectedDate = D17

\* C11: after any sequence of POST, PUT and DELETE requests, whatever userId
\* their bodies carry, every stored record that a request created has the demo
\* user's id as its userId, and a GET of a collection answers every stored
\* record of the kind.
C11_EveryRecordIsTheDemoUsers ==
    /\ \A k \in Kinds : \A i \in DOMAIN store[k] :
          store[k][i].key \in ApiIds => store[k][i].val["userId"] = Num(currentUserId)
    /\ (last.method = "GET" /\ last.kind \in ListKinds /\ last.params = <<>>) =>
          ListsExactly(last.res, Range(MapValues(store[last.kind])))

\* the text holds "time-" followed by two digits, a colon and two digits
HasTimeLabel(cs) ==
    \E i \in 1..Len(cs) : \E h1 \in DigitChars, h2 \in DigitChars, m1 \in DigitChars, m2 \in DigitChars :
        /\ i + 9 <= Len(cs)
        /\ SubSeq(cs, i, i + 9) = <<"t", "i", "m", "e", "-", h1, h2, ":", m1, m2>>
\* this step is the page handling a drag that ends
DragHandled == handled = NoEvent /\ handled'.fired

\* C12: a drag that ends with no drop target, or with a drop target whose id
\* does not match the pattern time-HH:MM, is a no-op: the page issues no
\* mutation, and the store and the id counter are as before.
C12_StrayDropIsNoOp ==
    [][(DragHandled /\ (handled'.over.isNull \/ ~HasTimeLabel(handled'.over.id))) =>
          /\ outbox' = outbox
          /\ store' = store /\ currentId' = currentId /\ issued' = issued
          /\ planner' = planner]_vars
\* a fetched todo has been dropped on a droppable whose id is not a time slot's
C12_Witness ==
    /\ handled.fired /\ ~handled.over.isNull
    /\ handled.over.id \in StrayDropIds
    /\ \E i \in DOMAIN planner.todos : handled.active = TodoElementId(planner.todos[i])
    /\ outbox = <<>>

\* C13: 400 is answered only to a request whose body fails validation, 404 only
\* to a PUT or DELETE of an id that is not a key of the Map; a request that
\* fails otherwise (the store throws while it creates or updates) is answered
\* neither 400 nor 404.
C13_StatusTaxonomy ==
    [][Served =>
          /\ last'.status = 400 =>
                \/ /\ last'.method = "POST"
                   /\ LacksRequired(last'.kind, last'.body) \/ HasInvalidType(last'.kind, last'.body)
                \/ last'.method = "PUT" /\ PutInvalid(last'.kind, last'.body)
          /\ last'.status = 404 =>
                last'.method \in {"PUT", "DELETE"} /\ ~AddressedPresent
          /\ last'.status \in {200, 400, 404, 500}]_vars

\* the Maps this step changes, and the keys of a Map whose entry it adds,
\* removes or replaces by another value
ChangedKinds == {k \in AllKinds : store'[k] # store[k]}
ChangedKeys(k) ==
    {id \in MapKeys(store[k]) \cup MapKeys(store'[k]) :
        \/ id \notin MapKeys(store[k]) \/ id \notin MapKeys(store'[k])
        \/ Stored(store[k], id) # Stored(store'[k], id)}

\* C14: a POST, PUT or DELETE request changes at most one record, of the one
\* Map of its route, advances the id counter by at most one and leaves every
\* other Map unchanged; a GET request changes neither a Map nor the counter.
C14_AtMostOneMutation ==
    [][Served =>
          /\ ChangedKinds \subseteq {last'.kind}
          /\ \A k \in ChangedKinds : Cardinality(ChangedKeys(k)) = 1
          /\ currentId' \in {currentId, currentId + 1}
          /\ last'.method = "GET" => (store' = store /\ currentId' = currentId)]_vars
\* a PUT has changed one of two stored scheduled items
C14_Witness ==
    /\ last.method = "PUT" /\ last.kind = "scheduledItems" /\ last.status = 200
    /\ Len(store["scheduledItems"]) = 2
    /\ \E i \in DOMAIN store["scheduledItems"], j \in DOMAIN store["scheduledItems"] :
          /\ store["scheduledItems"][i].val["duration"] = Num(15)
          /\ store["scheduledItems"][j].val["duration"] = Num(30)

\* the PUT exchanges that have begun and whose response has not been
\* delivered yet, in the order they began
PutsInFlight ==
    (IF last.method = "PUT" THEN <<last>> ELSE <<>>) \o awaiting
\* the schema keys the PUT's body names
Named(x) == DOMAIN x.body \cap SchemaKeys(x.kind)
\* two successful PUTs to the same stored record that name different fields
BothSucceed(a, b) ==
    /\ a.status = 200 /\ b.status = 200
    /\ a.kind = b.kind
    /\ ParseInt(a.params[1]) = ParseInt(b.params[1])
    /\ MapHas(store[a.kind], ParseInt(a.params[1]))
    /\ Named(a) # {} /\ Named(b) # {} /\ Named(a) \cap Named(b) = {}
\* the stored record has the value the PUT's body gives to every field it names
HasChange(x) ==
    LET rec == Stored(store[x.kind], ParseInt(x.params[1]).v)
    IN  \A f \in Named(x) : f \in DOMAIN rec /\ rec[f] = x.body[f]

MutationServed == outbox # <<>> /\ outbox' = Tail(outbox)
\* the demo user's stored scheduled items of the date
ItemsOfDate(date) == {r \in DemoRecords(store["scheduledItems"]) : r["date"] = Str(date)}

InFlightFor(date) ==
    \/ \E i \in DOMAIN outbox : outbox[i]["date"] = Str(date)
    \/ planner.pending /\ last.body["date"] = Str(date)
\* what GET /api/scheduled-items/<date> would answer now, as the page reads it
TimelineOf(date) == ResponseJson(getByUserAndDate(store["scheduledItems"], currentUserId, date))
\* the cache holds data for the date that is not marked for a refetch and
\* differs from what the server has
ShowsStale(date) ==
    /\ planner.cache[date].has /\ ~planner.cache[date].invalid
    /\ planner.cache[date].data # TimelineOf(date)

\* C17: when a create mutation succeeds, the cached scheduled-items query of
\* the date the created item belongs to is invalidated, also when the selected
\* date has changed while the mutation was in flight; so the cache never holds,
\* unmarked, a timeline that differs from the server's for a date no mutation
\* is in flight for.
C17_MutationInvalidatesItsDate ==
    [][/\ (planner.pending /\ ~planner'.pending /\ last.status = 200) =>
             LET date == last.res[1]["date"].s
             IN  planner.cache[date].has => planner'.cache[date].invalid
       /\ \A date \in Dates : ~InFlightFor(date)' => ~ShowsStale(date)']_vars

FollowingLegend(legends, key) ==
    legends[((findIndex(legends, Str(key)) + 1) % Len(legends)) + 1]["iconKey"].s
LastClick == tracker.clicks[Len(tracker.clicks)]

\* C19: repeated clicks on a habit cell advance the status it displays
\* cyclically through the legends: when a click was made with nothing of the
\* page on its way on a cell that displayed a legend, and its mutation and
\* refetch have completed, the cell displays the legend that follows that one
\* (the first after the last).
C19_ClicksCycleThroughLegends ==
    (/\ tracker.clicks # <<>>
     /\ AtRest(tracker)
     /\ LastClick.atRest
     /\ LastClick.displayed # <<>>)
    => Displayed(tracker, Num(LastClick.habitId), LastClick.date)
       = FollowingLegend(tracker.habitLegends, LastClick.displayed)

\* the tracking records of the store, and the payloads waiting to be sent, that
\* are for the habit and the date; and the clicks made on that cell
RecordsOf(habitId, date) ==
    SelectSeq(MapValues(store["habitTracking"]),
              LAMBDA r : r["habitId"] = Num(habitId) /\ r["date"] = Str(date))
WaitingFor(habitId, date) ==
    SelectSeq(tracker.queue, LAMBDA p : p["habitId"] = Num(habitId) /\ p["date"] = Str(date))
ClicksOn(habitId, date) ==
    SelectSeq(tracker.clicks, LAMBDA c : c.habitId = habitId /\ c.date = date)
TrackedCells ==
    {<<c.habitId, c.date>> : c \in {tracker.clicks[i] : i \in DOMAIN tracker.clicks}}
    \cup {<<r["habitId"].n, r["date"].s>> :
             r \in {store["habitTracking"][i].val : i \in DOMAIN store["habitTracking"]}}

\* C20: every click on a habit cell made while a legend is loaded issues a
\* create: a cell clicked n times whose mutations have all been served has n
\* tracking records in the store (one more click, one more payload or record),
\* and no step modifies or removes a tracking record the store already holds.
C20_EveryClickCreates ==
    [][/\ \A cell \in TrackedCells' :
             Len(RecordsOf(cell[1], cell[2]))' + Len(WaitingFor(cell[1], cell[2]))'
             = Len(ClicksOn(cell[1], cell[2]))'
       /\ \A i \in DOMAIN store["habitTracking"] :
             /\ i \in DOMAIN store'["habitTracking"]
             /\ store'["habitTracking"][i] = store["habitTracking"][i]]_vars
\* a cell clicked twice, both mutations served and the page refreshed
C20_Witness ==
    /\ AtRest(tracker)
    /\ Len(tracker.clicks) = 2
    /\ tracker.clicks[1].habitId = tracker.clicks[2].habitId
    /\ tracker.clicks[1].date = tracker.clicks[2].date
    /\ Len(RecordsOf(tracker.clicks[1].habitId, tracker.clicks[1].date)) = 2

\* the ids of the meeting and of the todo elements the page shows
MeetingElementIds == {MeetingElementId(planner.meetings[i]) : i \in DOMAIN planner.meetings}
TodoElementIds == {TodoElementId(planner.todos[i]) : i \in DOMAIN planner.todos}
PickedUp == planner.dragging = <<>> /\ planner'.dragging # <<>>

\* C21: on drag start the coordinator resolves the dragged element to the
\* record that was dragged: picking up the element meeting-<n> sets draggedItem
\* to the meeting with id n of the page's meetings, picking up todo-<n> to the
\* todo with id n of its todos, never to a record of another kind.
C21_DragStartResolvesTheDraggedRecord ==
    [][PickedUp =>
          /\ planner'.dragging \in MeetingElementIds
                => /\ planner'.draggedItem = FindMeeting(planner.meetings, planner'.dragging)
                   /\ planner'.draggedItem # <<>>
          /\ planner'.dragging \in TodoElementIds
                => /\ planner'.draggedItem = FindTodo(planner.todos, planner'.dragging)
                   /\ planner'.draggedItem # <<>>
          /\ planner'.dragging \in MeetingElementIds \cup TodoElementIds]_vars
\* a todo is being dragged while the page also shows a meeting and a
\* scheduled item
C21_Witness ==
    /\ planner.dragging \in TodoElementIds
    /\ planner.draggedItem = FindTodo(planner.todos, planner.dragging)
    /\ planner.meetings # <<>>
    /\ planner.scheduledItems # <<>>

\* C27: the drag coordinator is idle (draggedItem is null) after every
\* drag-end event: whenever no element is being dragged, also after a drag
\* that ended with no drop target, with a target that is not a time slot or
\* with an element that matches no meeting or todo, draggedItem is null.
C27_IdleAfterEveryDragEnd ==
    planner.dragging = <<>> => planner.draggedItem = <<>>

\* the stored health scores of a month of the selected year
ScoresOf(month) ==
    SelectSeq(MapValues(store["healthScores"]),
              LAMBDA r : r["month"] = Num(month) /\ r["year"] = Num(health.selectedYear))
Submitted == Len(health'.queue) = Len(health.queue) + 1
LastSubmitted == health'.queue[Len(health'.queue)]

\* C22: the HealthTracker submits a POST only when its query for the selected
\* month and year returned no score, and otherwise a PUT to the id of the
\* returned score; and as long as every submit was issued with nothing of the
\* page on its way (the previous mutation served and the query fetched again),
\* the store holds at most one health score for each month of the year.
C22_SubmitCreatesOnlyWithoutAScore ==
    [][/\ Submitted =>
             IF currentScore(health) = <<>>
             THEN /\ LastSubmitted.method = "POST"
                  /\ LastSubmitted.data["month"] = Num(health.selectedMonth)
                  /\ LastSubmitted.data["year"] = Num(health.selectedYear)
             ELSE /\ LastSubmitted.method = "PUT"
                  /\ LastSubmitted.id = currentScore(health)[1]["id"].n
       /\ ~health'.hasty => \A month \in ScoreMonths : Len(ScoresOf(month))' <= 1]_vars
\* every submit was made at rest, each month has its one score, and the
\* second submit for the selected month has just been served as a PUT
C22_Witness ==
    /\ ~health.hasty
    /\ last.method = "PUT" /\ last.kind = "healthScores" /\ last.status = 200
    /\ \A month \in ScoreMonths : Len(ScoresOf(month)) = 1
    /\ last.res = <<ScoresOf(health.selectedMonth)[1]>>
\* two submits of which one was issued before the refetch completed have
\* created two scores for the same month
C22_HastySubmitsCreateTwo ==
    health.hasty /\ \E month \in ScoreMonths : Len(ScoresOf(month)) = 2

SourceKinds == {"meetings", "todos"}
ItemCreated == Len(store'["scheduledItems"]) > Len(store["scheduledItems"])
SourceChanged == \E kind \in SourceKinds : store'[kind] # store[kind]
\* the scheduled items whose source is no longer stored
Orphans ==
    SelectSeq(MapValues(store["scheduledItems"]),
              LAMBDA item : /\ item["type"] = Str(<<"t", "o", "d", "o">>)
                            /\ item["originalId"].n \notin MapKeys(store["todos"]))

Ascending(res) == \A i, j \in DOMAIN res : i < j => res[i]["id"].n < res[j]["id"].n
KeyOrder(m) == [i \in DOMAIN m |-> m[i].key]
Listed == last' # last /\ last'.method = "GET" /\ last'.status = 200
Updated == last' # last /\ last'.method = "PUT" /\ last'.status = 200

\* C24: every list operation returns the matching records in insertion order,
\* which is ascending id order, and an update does not change a record's
\* position: a GET answers the demo user's records in the order the Map holds
\* them, with ascending ids, and a successful PUT leaves the order of the
\* Map's keys as it was.
C24_ListsKeepInsertionOrder ==
    [][/\ Listed =>
             /\ Ascending(last'.res)
             /\ last'.res = SelectSeq(MapValues(store[last'.kind]),
                                      LAMBDA r : r["userId"] = Num(currentUserId))
       /\ Updated => KeyOrder(store'[last'.kind]) = KeyOrder(store[last'.kind])]_vars
\* a list of two todos of which the first has been updated by a PUT and is
\* still listed first
C24_Witness ==
    /\ last.method = "GET" /\ Len(last.res) = 2
    /\ last.res[1]["completed"] = Bool(TRUE)
    /\ last.res[2]["completed"] # Bool(TRUE)

InitDone == initPc = Len(defaultLegends(1))

\* C25: when the store is constructed the demo user receives id 1 and the
\* four default habit legends receive ids 2 to 5 in their listed order, all
\* before any HTTP request is served: no exchange exists before the start-up
\* is done, after it the first four habit legends are the defaults under the
\* keys 2 to 5, a GET /api/habit-legends made before any legend is added
\* returns exactly those four, and the first record created through the API
\* has id 6.
C25_StartUpIdsComeFirst ==
    /\ last # NoExchange => InitDone
    /\ InitDone =>
          /\ MapKeys(store["users"]) = {currentUserId}
          /\ store["users"][1].val["id"] = Num(currentUserId)
          /\ \A i \in DOMAIN defaultLegends(1) :
                /\ store["habitLegends"][i].key = i + 1
                /\ store["habitLegends"][i].val["id"] = Num(i + 1)
                /\ store["habitLegends"][i].val["iconKey"] = defaultLegends(1)[i]["iconKey"]
                /\ store["habitLegends"][i].val["userId"] = Num(currentUserId)
    /\ (/\ last.method = "GET" /\ last.kind = "habitLegends"
        /\ Len(store["habitLegends"]) = Len(defaultLegends(1)))
       => /\ Len(last.res) = Len(defaultLegends(1))
          /\ \A i \in DOMAIN last.res : last.res[i]["id"] = Num(i + 1)
    /\ (last.method = "POST" /\ last.status = 200
        /\ Len(issued) = Len(defaultLegends(1)) + 2)
       => last.res[1]["id"] = Num(Len(defaultLegends(1)) + 2)
\* the first request served is a GET /api/habit-legends, answered with the
\* four default legends
C25_Witness ==
    /\ last.method = "GET" /\ last.kind = "habitLegends"
    /\ Len(issued) = Len(defaultLegends(1)) + 1
    /\ Len(last.res) = Len(defaultLegends(1))
    /\ last.res[1]["iconKey"] = Str(<<"c", "o", "m", "p", "l", "e", "t", "e", "d">>)
    /\ last.res[4]["iconKey"] = Str(<<"p", "a", "r", "t", "i", "a", "l">>)

\* C26: in every reachable state, for every entity map and every key k of it,
\* the record stored under k has id = k: no create, update or delete makes a
\* record's id field differ from its map key.
C26_IdIsTheMapKey ==
    \A kind \in AllKinds : \A i \in DOMAIN store[kind] :
        store[kind][i].val["id"] = Num(store[kind][i].key)
\* a PUT whose body names another id has been accepted for a stored scheduled
\* item
C26_Witness ==
    /\ last.method = "PUT" /\ last.kind = "scheduledItems" /\ last.status = 200
    /\ "id" \in DOMAIN last.body
    /\ last.body["id"] # last.res[1]["id"]
    /\ last.res[1]["id"].n \in MapKeys(store["scheduledItems"])

\* ---------------------------------------------------------------- C28
\* the nearest integer to deltaY / 2, a half going up, said without division
NearestToHalfOf(deltaY) ==
    CHOOSE r \in -200..200 : 2 * r <= deltaY + 1 /\ deltaY + 1 < 2 * r + 2
\* the update a movement of the pointer has just queued
MoveQueued == Len(planner'.updates) = Len(planner.updates) + 1
\* C28: every duration a resize gesture sends is at least 15 minutes, and
\* each movement of the pointer sends max(15, d0 + round(deltaY / 2)), d0 the
\* duration the item showed at the mouse-down and deltaY the offset from the
\* position of the mouse-down, whatever the updates sent earlier in the
\* gesture have done to the item; the server receives that duration.
C28_ResizeSendsFromTheStartDuration ==
    [][/\ planner.resizing = <<>> /\ planner'.resizing # <<>> =>
            \E i \in DOMAIN planner.scheduledItems :
                /\ planner.scheduledItems[i]["id"].n = planner'.resizing[1].id
                /\ planner.scheduledItems[i]["duration"].n = planner'.resizing[1].startDuration
                /\ planner'.resizing[1].startY = StartY
       /\ MoveQueued =>
            LET sent == planner'.updates[Len(planner'.updates)]
                d0 == planner.resizing[1].startDuration
                want == d0 + NearestToHalfOf(sent.clientY - StartY)
            IN  /\ planner'.resizing = planner.resizing
                /\ sent.id = planner.resizing[1].id
                /\ DOMAIN sent.data = {"duration"}
                /\ sent.data["duration"].n >= 15
                /\ sent.data["duration"].n = IF want >= 15 THEN want ELSE 15
       /\ (planner.updates # <<>> /\ planner'.updates = Tail(planner.updates)) =>
            /\ last'.method = "PUT" /\ last'.kind = "scheduledItems"
            /\ last'.body = Head(planner.updates).data
            /\ last'.body["duration"].n >= 15
      ]_vars
\* in one gesture an update has been served and the timeline fetched again, so
\* that the item shows another duration than at the mouse-down, and a further
\* movement of the pointer is queued
C28_Witness ==
    /\ planner.resizing # <<>>
    /\ planner.updates # <<>>
    /\ planner.moves = 2
    /\ \E i \in DOMAIN planner.scheduledItems :
          /\ planner.scheduledItems[i]["id"].n = planner.resizing[1].id
          /\ planner.scheduledItems[i]["duration"].n # planner.resizing[1].startDuration
    /\ planner.updates[1].data["duration"].n = 15

\* ---------------------------------------------------------------- C29
\* the records a POST has created: those after the start-up records
PostedTo(kind) ==
    {i \in DOMAIN store[kind] : store[kind][i].key > Len(defaultLegends(1)) + 1}
\* the record is in the response just sent
Returned(rec) == \E j \in DOMAIN last'.res : last'.res[j] = rec
\* a GET of the collection of the kind has been served in this step
Got(kind) == last = NoExchange /\ last'.method = "GET" /\ last'.kind = kind
\* the month and the year written in a date text "YYYY-MM-DD"
MonthOf(cs) == SubSeq(cs, 6, 7)
YearOf(cs) == SubSeq(cs, 1, 4)
\* the request asks for the month and year the record's date is written in
AsksForMonthOf(rec) ==
    /\ PadStart2(last'.params[1]) = MonthOf(rec["date"].s)
    /\ last'.params[2] = YearOf(rec["date"].s)
\* every record a POST has created stays in its Map with the fields it has
StaysAsCreated(kind) ==
    \A i \in PostedTo(kind) : i \in DOMAIN store'[kind] /\ store'[kind][i] = store[kind][i]
\* the POST just served answers with the record it stored
AnsweredAsStored ==
    \A kind \in KeptKinds :
        (last = NoExchange /\ last'.method = "POST" /\ last'.kind = kind /\ last'.status = 200) =>
            /\ Len(store'[kind]) = Len(store[kind]) + 1
            /\ last'.res = <<store'[kind][Len(store'[kind])].val>>
\* C29: a record of a kind without PUT and DELETE routes (projects, goals,
\* habit tracking, habit legends, accounts, transactions, financial goals),
\* once a POST has created it, is returned with unchanged fields by every
\* later GET of its collection, for habit tracking by every later GET of its
\* month and year, whatever requests are served in between.
C29_PostedRecordsAreReturnedUnchanged ==
    [][/\ AnsweredAsStored
       /\ \A kind \in KeptKinds : StaysAsCreated(kind)
       /\ \A kind \in KeptKinds \ {"habitTracking"} :
             Got(kind) => \A i \in PostedTo(kind) : Returned(store[kind][i].val)
       /\ Got("habitTracking") =>
             \A i \in PostedTo("habitTracking") :
                 AsksForMonthOf(store["habitTracking"][i].val)
                     => Returned(store["habitTracking"][i].val)
      ]_vars
\* What does hold: the records stay in their Maps unchanged, the GETs of the
\* six other collections return them, and a GET of a month returns a tracking
\* record of a day after the first.
C29_ReturnedButForTheFirstOfTheMonth ==
    [][/\ AnsweredAsStored
       /\ \A kind \in KeptKinds : StaysAsCreated(kind)
       /\ \A kind \in KeptKinds \ {"habitTracking"} :
             Got(kind) => \A i \in PostedTo(kind) : Returned(store[kind][i].val)
       /\ Got("habitTracking") =>
             \A i \in PostedTo("habitTracking") :
                 LET rec == store["habitTracking"][i].val
                 IN  (AsksForMonthOf(rec) /\ rec["date"].s # CellDate(1)) => Returned(rec)
      ]_vars
\* a project created before a todo was created, updated and deleted is listed
C29_Witness ==
    /\ last.method = "GET" /\ last.kind = "projects" /\ Len(last.res) = 1
    /\ store["todos"] = <<>> /\ Len(issued) = Len(defaultLegends(1)) + 3

\* ---------------------------------------------------------------- C30
\* the labels of the timeline's slots
SlotLabels == {getTimeSlots[i] : i \in DOMAIN getTimeSlots}
\* C30: every scheduled item a drop has created has one of the eleven hourly
\* labels 08:00, 09:00, ..., 18:00 as its startTime, in the payload of the
\* mutation and in the store, and the timeline renders each item of its query
\* in exactly one slot, the slot whose label is the item's startTime.
C30_DroppedItemsSitInTheirSlot ==
    /\ Len(getTimeSlots) = 11
    /\ getTimeSlots[1] = <<"0", "8", ":", "0", "0">>
    /\ getTimeSlots[2] = <<"0", "9", ":", "0", "0">>
    /\ getTimeSlots[11] = <<"1", "8", ":", "0", "0">>
    /\ \A i, j \in DOMAIN getTimeSlots : getTimeSlots[i] = getTimeSlots[j] => i = j
    /\ \A i \in DOMAIN outbox : outbox[i]["startTime"].s \in SlotLabels
    /\ \A i \in DOMAIN store["scheduledItems"] :
          store["scheduledItems"][i].val["startTime"].s \in SlotLabels
    /\ \A i \in DOMAIN planner.scheduledItems :
          LET item == planner.scheduledItems[i]
              slots == RenderedIn(planner.scheduledItems, item)
          IN  /\ Cardinality(slots) = 1
              /\ \A s \in slots : Str(getTimeSlots[s]) = item["startTime"]
\* the timeline shows an item that a drop of a todo on the last slot created
C30_Witness ==
    \E i \in DOMAIN planner.scheduledItems :
        LET item == planner.scheduledItems[i]
        IN  /\ item["type"] = Str(<<"t", "o", "d", "o">>)
            /\ item["startTime"] = Str(<<"1", "8", ":", "0", "0">>)
            /\ RenderedIn(planner.scheduledItems, item) = {11}

====
